---- MODULE Spec2Model ----
(***************************************************************************)
(* Position lifecycle reconciliation and settlement engine of              *)
(* tv-telegram-bot (src/app.py).                                           *)
(*                                                                         *)
(* Numbers.  The program computes with Python floats.  The model computes  *)
(* with integers on two fixed-point grids:                                 *)
(*   - a quantity q stands for q / QtyOne; the 1e-12 tolerance of the      *)
(*     quantity comparison is Eps grid steps;                              *)
(*   - an amount of money a stands for a / Usd currency units; the         *)
(*     8-decimal precision of a stored Trade is RoundUnit grid steps, so   *)
(*     an amount that is no multiple of RoundUnit has digits beyond the    *)
(*     8th decimal.                                                        *)
(* The ratios of the real grids (1e12 and 1e8) exceed TLC's integers; the  *)
(* model keeps their order (a step is no larger than the tolerance, the    *)
(* tolerance smaller than a unit) and shrinks the ratios.  Prices are      *)
(* multiples of Usd, so that quantity * price and the taker fee of a       *)
(* position value are exact on the grid.                                   *)
(*                                                                         *)
(* Time.  now_kst() is the model's clock, which advances by one with       *)
(* every operation; all calls of now_kst() within one operation read the   *)
(* same instant.                                                           *)
(*                                                                         *)
(* Order.  A dict is iterated in insertion order; the model iterates the   *)
(* identity keys in the fixed order KeyOrder.                              *)
(***************************************************************************)
EXTENDS Integers, Sequences, FiniteSets, TLC

VARIABLES
    open_positions,  \* Redis "state:open_positions": the previous snapshot
    init_flag,       \* Redis "state:init_done" = "1"
    sess,            \* Redis "sess:position:<key>": the Session Records
    hist,            \* Redis "history:trades:<day>": lists, newest first
    clock,           \* now_kst()
    inp,             \* the input of the last operation
    res,             \* what the last operation returned and sent
    fee_in,          \* the arguments of a fee_calc call
    fee_out,         \* <<>> before the call returns, then <<its result>>
    lock,            \* LOCK: "free" or the request that holds it
    pc,              \* where each /positions_check request stands
    todo,            \* per request: the writes its cycle has still to make, and its result
    blocked,         \* the requests that arrived while LOCK was held
    kv,              \* Redis "cfg:<name>", "switch:<kind>:<chat>", "throttle:panterra:<symbol>:<side>"
    MEM_THROTTLE,    \* the process's dict of the same name
    switch_log,      \* Redis "logs:switch", newest first
    tg               \* the Telegram messages sent, oldest first

vars == <<open_positions, init_flag, sess, hist, clock, inp, res, fee_in, fee_out,
          lock, pc, todo, blocked, kv, MEM_THROTTLE, switch_log, tg>>

store_vars == <<open_positions, init_flag, sess, hist>>
fee_vars == <<fee_in, fee_out>>
req_vars == <<lock, pc, todo, blocked>>
io_vars == <<kv, MEM_THROTTLE, switch_log, tg>>

----------------------------------------------------------------------------
(* Bounds of the model *)

MaxClock == 3
DayLen == 3
MaxRecs == 2
MaxFails == 1
MaxSent == 3

----------------------------------------------------------------------------
(* Numbers *)

RoundUnit == 10
FeeDen == 2000
QtyOne == 4
Eps == 1
HistKeep == 5000
ThrottleSec == 2
Usd == QtyOne * FeeDen

Abs(x) == IF x < 0 THEN -x ELSE x
Max(a, b) == IF a >= b THEN a ELSE b
Min(a, b) == IF a <= b THEN a ELSE b

\* quantity * price, as an amount of money
Mul(q, p) == (q * p) \div QtyOne

\* float(f"{x:.8f}"): the nearest multiple of the 8-decimal precision, a tie
\* going to the even neighbour
Round8(x) ==
    LET q == x \div RoundUnit
        r == x % RoundUnit
    IN  IF 2 * r < RoundUnit THEN q * RoundUnit
        ELSE IF 2 * r > RoundUnit THEN (q + 1) * RoundUnit
        ELSE IF q % 2 = 0 THEN q * RoundUnit
        ELSE (q + 1) * RoundUnit

\* x * TAKER_FEE_RATE for x >= 0, TAKER_FEE_RATE = 0.0005 = 1 / FeeDen
TimesFeeRate(x) == x \div FeeDen

----------------------------------------------------------------------------
(* Strings: a string is compared and searched as its sequence of characters *)

UpperLetters ==
    <<"A","B","C","D","E","F","G","H","I","J","K","L","M",
      "N","O","P","Q","R","S","T","U","V","W","X","Y","Z">>
LowerLetters ==
    <<"a","b","c","d","e","f","g","h","i","j","k","l","m",
      "n","o","p","q","r","s","t","u","v","w","x","y","z">>
Digits == {"0","1","2","3","4","5","6","7","8","9"}

Range(s) == {s[i] : i \in DOMAIN s}
IndexOf(s, c) == CHOOSE i \in DOMAIN s : s[i] = c

Chars(s) ==
    CASE s = "BTCUSDT"      -> <<"B","T","C","U","S","D","T">>
      [] s = "ETHUSDT"      -> <<"E","T","H","U","S","D","T">>
      [] s = "BTC-USDT"     -> <<"B","T","C","-","U","S","D","T">>
      [] s = "btcusdt"      -> <<"b","t","c","u","s","d","t">>
      [] s = "BTC"          -> <<"B","T","C">>
      [] s = "-"            -> <<"-">>
      [] s = ""             -> <<>>
      [] s = "REALIZED_PNL" -> <<"R","E","A","L","I","Z","E","D","_","P","N","L">>
      [] s = "TRADING_FEE"  -> <<"T","R","A","D","I","N","G","_","F","E","E">>
      [] s = "FUNDING_FEE"  -> <<"F","U","N","D","I","N","G","_","F","E","E">>
      [] s = "Commission"   -> <<"C","o","m","m","i","s","s","i","o","n">>
      [] s = "commission"   -> <<"c","o","m","m","i","s","s","i","o","n">>
      [] s = "fee"          -> <<"f","e","e">>
      [] s = "funding"      -> <<"f","u","n","d","i","n","g">>
      [] s = "fund"         -> <<"f","u","n","d">>
      [] s = " "            -> <<" ">>
      [] s = "LONG"         -> <<"L","O","N","G">>
      [] s = "SHORT"        -> <<"S","H","O","R","T">>
      [] s = "long"         -> <<"l","o","n","g">>
      [] s = "short"        -> <<"s","h","o","r","t">>
      [] s = "Sell"         -> <<"S","e","l","l">>
      [] s = "sell"         -> <<"s","e","l","l">>
      [] s = "buy"          -> <<"b","u","y">>
      [] s = "BOTH"         -> <<"B","O","T","H">>
      [] s = "1"            -> <<"1">>
      [] s = "2"            -> <<"2">>
      [] s = "ISOLATED"     -> <<"I","S","O","L","A","T","E","D">>
      [] s = "isol"         -> <<"i","s","o","l">>
      [] s = "true"         -> <<"t","r","u","e">>

UpperSet == Range(UpperLetters)
LowerSet == Range(LowerLetters)
AlnumSet == UpperSet \cup LowerSet \cup Digits

IsAlnum(c) == c \in AlnumSet
UpperChar(c) == IF c \in LowerSet THEN UpperLetters[IndexOf(LowerLetters, c)] ELSE c
LowerChar(c) == IF c \in UpperSet THEN LowerLetters[IndexOf(UpperLetters, c)] ELSE c

\* s.upper(), s.lower()
UpperStr(cs) == [i \in DOMAIN cs |-> UpperChar(cs[i])]
LowerStr(cs) == [i \in DOMAIN cs |-> LowerChar(cs[i])]

\* re.sub(r"[^A-Za-z0-9]", "", s).upper()
NormSymbol(s) == UpperStr(SelectSeq(Chars(s), IsAlnum))

\* needle in hay
Contains(hay, needle) ==
    \E i \in 0..(Len(hay) - Len(needle)) : SubSeq(hay, i + 1, i + Len(needle)) = needle

RECURSIVE Concat(_)
Concat(ss) == IF ss = <<>> THEN <<>> ELSE Head(ss) \o Concat(Tail(ss))

RECURSIVE SumSeq(_)
SumSeq(s) == IF s = <<>> THEN 0 ELSE Head(s) + SumSeq(Tail(s))

----------------------------------------------------------------------------
(* Settlement Reconciler: _income_split and fee_calc.  recs is what          *)
(* fetch_income returned: <<>> when the exchange has no data, fails or       *)
(* times out (bingx_req returns None on every endpoint).                     *)

\* the keyword test on the lower-cased type token
IsFeeType(typ) ==
    \E kw \in {"commission", "fee", "funding", "fund"} :
        Contains(LowerStr(Chars(typ)), Chars(kw))

\* the symbol filter switched off: no record is skipped
Foreign_Off(symbol, r) == FALSE

\* the symbol filter: TRUE when the loop skips the record (continue)
Foreign(symbol, r) ==
    LET req_norm == NormSymbol(symbol)
        rec_norm == NormSymbol(r.symbol)
    IN  /\ Chars(r.symbol) # <<>>
        /\ req_norm # <<>>
        /\ rec_norm # <<>>
        /\ ~Contains(rec_norm, req_norm)
        /\ ~Contains(req_norm, rec_norm)

\* IncomeStep without the continue of the fee branch: a fee record is added
\* to closed_sum as well
IncomeStep_NoContinue(symbol, acc, r) ==
    IF Foreign(symbol, r) THEN acc
    ELSE IF IsFeeType(r.type)
         THEN [acc EXCEPT !.realized = @ + r.amount, !.fee_funding = @ + r.amount,
                          !.closed = @ + r.amount]
         ELSE [acc EXCEPT !.realized = @ + r.amount, !.closed = @ + r.amount]

\* one turn of the loop over recs
IncomeStep(symbol, acc, r) ==
    IF Foreign(symbol, r) THEN acc
    ELSE IF IsFeeType(r.type)
         THEN [acc EXCEPT !.realized = @ + r.amount, !.fee_funding = @ + r.amount]
         ELSE [acc EXCEPT !.realized = @ + r.amount, !.closed = @ + r.amount]

RECURSIVE IncomeLoop(_, _, _)
IncomeLoop(symbol, acc, recs) ==
    IF recs = <<>> THEN acc
    ELSE IncomeLoop(symbol, IncomeStep(symbol, acc, Head(recs)), Tail(recs))

\* ok = FALSE stands for the result (None, None, None)
income_split(symbol, recs) ==
    IF recs = <<>>
    THEN [ok |-> FALSE, closed |-> 0, fee_funding |-> 0, realized |-> 0]
    ELSE IncomeLoop(symbol, [ok |-> TRUE, closed |-> 0, fee_funding |-> 0, realized |-> 0], recs)

\* fee_calc whose fallback takes the signed values, without abs()
fee_calc_NoAbs(symbol, recs, closed, entry_v, exit_v) ==
    LET sp == income_split(symbol, recs)
        ff == -TimesFeeRate(entry_v + exit_v)
    IN  IF sp.ok
        THEN [closed_pnl |-> sp.closed, fee_funding |-> sp.fee_funding,
              realized |-> sp.closed + sp.fee_funding]
        ELSE [closed_pnl |-> closed, fee_funding |-> ff, realized |-> closed + ff]

fee_calc(symbol, recs, closed, entry_v, exit_v) ==
    LET sp == income_split(symbol, recs)
        ff == -TimesFeeRate(Abs(entry_v) + Abs(exit_v))
    IN  IF sp.ok
        THEN [closed_pnl |-> sp.closed, fee_funding |-> sp.fee_funding,
              realized |-> sp.closed + sp.fee_funding]
        ELSE [closed_pnl |-> closed, fee_funding |-> ff, realized |-> closed + ff]

----------------------------------------------------------------------------
(* Positions, identity keys and the inputs of a cycle *)

pkey(symbol, side) == <<symbol, side>>

KeyOrder == <<pkey("BTCUSDT", "Long"), pkey("BTCUSDT", "Short"), pkey("ETHUSDT", "Long")>>
Keys == Range(KeyOrder)

\* what norm_pos can return for a key, up to symbol and side
ShapeA ==
    [qty |-> QtyOne, entry_price |-> 100 * Usd, mark_price |-> 100 * Usd,
     value |-> 100 * Usd, leverage |-> 10, margin_mode |-> "Cross", r_pnl |-> 0]
ShapeB ==
    [qty |-> QtyOne + 2, entry_price |-> 100 * Usd, mark_price |-> 120 * Usd,
     value |-> 150 * Usd, leverage |-> 10, margin_mode |-> "Cross", r_pnl |-> 0]
ShapeC ==
    [qty |-> QtyOne, entry_price |-> 1000 * Usd, mark_price |-> 1100 * Usd,
     value |-> 1000 * Usd, leverage |-> 5, margin_mode |-> "Isolated", r_pnl |-> 0]

\* the shapes the exchange reports for each key
ShapesOf(k) ==
    CASE k = pkey("BTCUSDT", "Long") -> {ShapeA, ShapeB}
      [] k = pkey("BTCUSDT", "Short") -> {ShapeC}
      [] k = pkey("ETHUSDT", "Long") -> {ShapeC}

Position(k, sh) ==
    [symbol |-> k[1], side |-> k[2], qty |-> sh.qty, entry_price |-> sh.entry_price,
     mark_price |-> sh.mark_price, value |-> sh.value, leverage |-> sh.leverage,
     margin_mode |-> sh.margin_mode, r_pnl |-> sh.r_pnl]

\* the dict cur that process_positions builds from fetch_positions()
Snapshots ==
    UNION { {[k \in S |-> Position(k, f[k])] :
                f \in {g \in [S -> UNION {ShapesOf(k) : k \in S}] : \A k \in S : g[k] \in ShapesOf(k)}} :
            S \in SUBSET Keys }

\* what fetch_income can return
IncomeLists ==
    { <<>>,
      <<[symbol |-> "BTC-USDT", type |-> "REALIZED_PNL", amount |-> 4],
        [symbol |-> "BTCUSDT", type |-> "TRADING_FEE", amount |-> 4],
        [symbol |-> "ETHUSDT", type |-> "REALIZED_PNL", amount |-> 24]>> }

Day(ts) == ts \div DayLen
Days == 0..Day(MaxClock + 1)

----------------------------------------------------------------------------
(* The durable store, as the record st of its four parts, and its writes *)

Store == [open_positions |-> open_positions, init_flag |-> init_flag, sess |-> sess, hist |-> hist]

NoSnapshot == [k \in {} |-> 0]

\* sess_get(k) or default
sess_get_or(st, k, default) == IF k \in DOMAIN st.sess THEN st.sess[k] ELSE default

\* rpush_json that trims one place too far: LTRIM 0 keep-2
rpush_json_TrimOneMore(lst, v, keep) == SubSeq(<<v>> \o lst, 1, Min(keep - 1, Len(lst) + 1))

\* rpush_json: LPUSH, then LTRIM 0 keep-1
rpush_json(lst, v, keep) == SubSeq(<<v>> \o lst, 1, Min(keep, Len(lst) + 1))

\* one write of the cycle, applied to the store
ApplyOp(st, op) ==
    CASE op.op = "sess_set" ->
            [st EXCEPT !.sess = [x \in DOMAIN st.sess \cup {op.k} |->
                                    IF x = op.k THEN op.v ELSE st.sess[x]]]
      [] op.op = "sess_del" ->
            [st EXCEPT !.sess = [x \in DOMAIN st.sess \ {op.k} |-> st.sess[x]]]
      [] op.op = "hist_push" ->
            [st EXCEPT !.hist[Day(op.row.close_ts)] = rpush_json(@, op.row, HistKeep)]
      [] op.op = "save_open_state" ->
            [st EXCEPT !.open_positions = op.m]
      [] op.op = "mark_init_done" ->
            [st EXCEPT !.init_flag = TRUE]
      [] op.op = "send_pos_alert" -> st

RECURSIVE ApplyOps(_, _)
ApplyOps(st, ops) == IF ops = <<>> THEN st ELSE ApplyOps(ApplyOp(st, Head(ops)), Tail(ops))

----------------------------------------------------------------------------
(* process_positions: the Lifecycle Diff Classifier *)

\* the Session Record written on the cold-start path and for an open
FreshSess(p, now) ==
    [symbol |-> p.symbol, side |-> p.side, margin_mode |-> p.margin_mode,
     leverage |-> p.leverage, start_ts |-> now, entry_price_init |-> p.entry_price,
     last_entry_price |-> p.entry_price, total_entry_value |-> p.value,
     total_exit_value |-> 0, last_qty |-> p.qty, last_mark_price |-> p.mark_price,
     last_r_pnl |-> p.r_pnl]

\* RebuiltSess that starts from an empty accumulator
RebuiltSess_NoNotional(p, now) ==
    [symbol |-> p.symbol, side |-> p.side, margin_mode |-> p.margin_mode,
     leverage |-> p.leverage, start_ts |-> now, entry_price_init |-> p.entry_price,
     total_entry_value |-> 0, total_exit_value |-> 0]

\* the record used when sess_get(k) is empty, for a key of both snapshots
RebuiltSess(p, now) ==
    [symbol |-> p.symbol, side |-> p.side, margin_mode |-> p.margin_mode,
     leverage |-> p.leverage, start_ts |-> now, entry_price_init |-> p.entry_price,
     total_entry_value |-> p.value, total_exit_value |-> 0]

\* the record used when sess_get(k) is empty, for a key that closes
RebuiltSessClose(o, now) ==
    [symbol |-> o.symbol, side |-> o.side, margin_mode |-> o.margin_mode,
     leverage |-> o.leverage, start_ts |-> now, entry_price_init |-> o.entry_price,
     total_entry_value |-> o.value, total_exit_value |-> 0]

\* QtyChange without the tolerance, an equal quantity counted as an add
QtyChange_Ge(o, p) ==
    IF p.qty >= o.qty THEN "add"
    ELSE IF p.qty < o.qty THEN "reduce"
    ELSE "none"

\* QtyChange without the tolerance
QtyChange_NoEps(o, p) ==
    IF p.qty > o.qty THEN "add"
    ELSE IF p.qty < o.qty THEN "reduce"
    ELSE "none"

\* the branch taken for a key of both snapshots
QtyChange(o, p) ==
    IF p.qty > o.qty + Eps THEN "add"
    ELSE IF p.qty + Eps < o.qty THEN "reduce"
    ELSE "none"

\* the event of key k in a cycle that is not the initial sync
EventOf(prev, cur, k) ==
    IF k \in DOMAIN cur
    THEN IF k \notin DOMAIN prev THEN "open" ELSE QtyChange(prev[k], cur[k])
    ELSE IF k \in DOMAIN prev THEN "close" ELSE "absent"

\* TouchSess that adds the whole current notional on an add
TouchSess_WholeValue(s, o, p) ==
    LET ch == QtyChange(o, p)
    IN  [symbol |-> s.symbol, side |-> s.side, margin_mode |-> p.margin_mode,
         leverage |-> p.leverage, start_ts |-> s.start_ts,
         entry_price_init |-> s.entry_price_init,
         last_entry_price |-> p.entry_price,
         total_entry_value |->
             IF ch = "add" THEN s.total_entry_value + p.value ELSE s.total_entry_value,
         total_exit_value |->
             IF ch = "reduce" THEN s.total_exit_value + o.value ELSE s.total_exit_value,
         last_qty |-> p.qty, last_mark_price |-> p.mark_price, last_r_pnl |-> p.r_pnl]

\* TouchSess whose add takes the reported notional delta alone
TouchSess_AddNotionalOnly(s, o, p) ==
    LET rv == Max(o.value - p.value, Mul(o.qty - p.qty, p.mark_price))
        ch == QtyChange(o, p)
    IN  [symbol |-> s.symbol, side |-> s.side, margin_mode |-> p.margin_mode,
         leverage |-> p.leverage, start_ts |-> s.start_ts,
         entry_price_init |-> s.entry_price_init,
         last_entry_price |-> p.entry_price,
         total_entry_value |->
             IF ch = "add" THEN s.total_entry_value + Max(p.value - o.value, 0)
             ELSE s.total_entry_value,
         total_exit_value |->
             IF ch = "reduce" THEN s.total_exit_value + Max(rv, 0) ELSE s.total_exit_value,
         last_qty |-> p.qty, last_mark_price |-> p.mark_price, last_r_pnl |-> p.r_pnl]

\* TouchSess whose reduce prices the removed quantity at the entry price
TouchSess_ReduceAtEntry(s, o, p) ==
    LET dv == Max(p.value - o.value, Mul(p.qty - o.qty, p.entry_price))
        rv == Max(o.value - p.value, Mul(o.qty - p.qty, p.entry_price))
        ch == QtyChange(o, p)
    IN  [symbol |-> s.symbol, side |-> s.side, margin_mode |-> p.margin_mode,
         leverage |-> p.leverage, start_ts |-> s.start_ts,
         entry_price_init |-> s.entry_price_init,
         last_entry_price |-> p.entry_price,
         total_entry_value |->
             IF ch = "add" THEN s.total_entry_value + Max(dv, 0) ELSE s.total_entry_value,
         total_exit_value |->
             IF ch = "reduce" THEN s.total_exit_value + Max(rv, 0) ELSE s.total_exit_value,
         last_qty |-> p.qty, last_mark_price |-> p.mark_price, last_r_pnl |-> p.r_pnl]

\* the Session Record of a key of both snapshots after the add / reduce step
\* and s.update(...)
TouchSess(s, o, p) ==
    LET q0 == o.qty
        q1 == p.qty
        dv == Max(p.value - o.value, Mul(q1 - q0, p.entry_price))
        rv == Max(o.value - p.value, Mul(q0 - q1, p.mark_price))
        ch == QtyChange(o, p)
    IN  [symbol |-> s.symbol, side |-> s.side, margin_mode |-> p.margin_mode,
         leverage |-> p.leverage, start_ts |-> s.start_ts,
         entry_price_init |-> s.entry_price_init,
         last_entry_price |-> p.entry_price,
         total_entry_value |->
             IF ch = "add" THEN s.total_entry_value + Max(dv, 0) ELSE s.total_entry_value,
         total_exit_value |->
             IF ch = "reduce" THEN s.total_exit_value + Max(rv, 0) ELSE s.total_exit_value,
         last_qty |-> q1, last_mark_price |-> p.mark_price, last_r_pnl |-> p.r_pnl]

\* ClosedEstimate that ignores the side
ClosedEstimate_NoSide(side, tv_in, tv_out) == tv_out - tv_in

\* closed = (tv_out - tv_in) if side == "Long" else (tv_in - tv_out)
ClosedEstimate(side, tv_in, tv_out) ==
    IF side = "Long" THEN tv_out - tv_in ELSE tv_in - tv_out

\* CloseCall that takes the mark price even when it is zero
CloseCall_MarkOnly(s, o, recs) ==
    LET close_p == o.mark_price
        tv_in == s.total_entry_value
        tv_out == s.total_exit_value + Max(Mul(o.qty, close_p), 0)
    IN  [symbol |-> s.symbol, side |-> s.side, recs |-> recs, close_price |-> close_p,
         closed |-> ClosedEstimate(s.side, tv_in, tv_out),
         entry_v |-> tv_in, exit_v |-> tv_out]

\* the arguments of the fee_calc call made for a closing key
CloseCall(s, o, recs) ==
    LET close_p == IF o.mark_price # 0 THEN o.mark_price ELSE o.entry_price
        tv_in == s.total_entry_value
        tv_out == s.total_exit_value + Max(Mul(o.qty, close_p), 0)
    IN  [symbol |-> s.symbol, side |-> s.side, recs |-> recs, close_price |-> close_p,
         closed |-> ClosedEstimate(s.side, tv_in, tv_out),
         entry_v |-> tv_in, exit_v |-> tv_out]

\* the Trade row of a closing key
CloseRow(s, o, recs, now) ==
    LET c == CloseCall(s, o, recs)
        fc == fee_calc(c.symbol, c.recs, c.closed, c.entry_v, c.exit_v)
    IN  [symbol |-> s.symbol, side |-> s.side, start_ts |-> s.start_ts, close_ts |-> now,
         entry_price |-> s.entry_price_init, close_price |-> c.close_price,
         total_entry_value |-> c.entry_v, total_exit_value |-> c.exit_v,
         closed_pnl |-> Round8(fc.closed_pnl), fee_funding |-> Round8(fc.fee_funding),
         realized |-> Round8(fc.realized),
         margin_mode |-> s.margin_mode, leverage |-> s.leverage]

\* InitialSyncOps without mark_init_done()
InitialSyncOps_NoFlag(cur, now) ==
    Concat([i \in DOMAIN KeyOrder |->
               IF KeyOrder[i] \in DOMAIN cur
               THEN <<[op |-> "sess_set", k |-> KeyOrder[i], v |-> FreshSess(cur[KeyOrder[i]], now)]>>
               ELSE <<>>])
    \o <<[op |-> "save_open_state", m |-> cur]>>

\* the writes and alerts of the cold-start path, in program order
InitialSyncOps(cur, now) ==
    Concat([i \in DOMAIN KeyOrder |->
               IF KeyOrder[i] \in DOMAIN cur
               THEN <<[op |-> "sess_set", k |-> KeyOrder[i], v |-> FreshSess(cur[KeyOrder[i]], now)]>>
               ELSE <<>>])
    \o <<[op |-> "save_open_state", m |-> cur], [op |-> "mark_init_done"]>>

\* UpsertOps that measures the quantity change from the Session Record's
\* last_qty instead of the persisted snapshot
UpsertOps_FromSession(st, prev, cur, k, now, send_alert) ==
    LET seen == IF k \in DOMAIN prev /\ k \in DOMAIN st.sess
                THEN [prev EXCEPT ![k].qty = st.sess[k].last_qty]
                ELSE prev
        ev == EventOf(seen, cur, k)
        alert == IF send_alert /\ ev \in {"open", "add", "reduce"}
                 THEN <<[op |-> "send_pos_alert", kind |-> ev, k |-> k]>>
                 ELSE <<>>
    IN  IF ev = "open"
        THEN <<[op |-> "sess_set", k |-> k, v |-> FreshSess(cur[k], now)]>> \o alert
        ELSE alert \o
             <<[op |-> "sess_set", k |-> k,
                v |-> TouchSess(sess_get_or(st, k, RebuiltSess(cur[k], now)), seen[k], cur[k])]>>

\* UpsertOps that tracks by symbol: a key with no previous Position is
\* compared with the previous Position of the other side of its symbol
UpsertOps_BySymbol(st, prev, cur, k, now, send_alert) ==
    LET other == pkey(k[1], IF k[2] = "Long" THEN "Short" ELSE "Long")
        seen == IF k \notin DOMAIN prev /\ other \in DOMAIN prev
                THEN [x \in DOMAIN prev \cup {k} |-> IF x = k THEN prev[other] ELSE prev[x]]
                ELSE prev
        ev == EventOf(seen, cur, k)
        alert == IF send_alert /\ ev \in {"open", "add", "reduce"}
                 THEN <<[op |-> "send_pos_alert", kind |-> ev, k |-> k]>>
                 ELSE <<>>
    IN  IF ev = "open"
        THEN <<[op |-> "sess_set", k |-> k, v |-> FreshSess(cur[k], now)]>> \o alert
        ELSE alert \o
             <<[op |-> "sess_set", k |-> k,
                v |-> TouchSess(sess_get_or(st, k, RebuiltSess(cur[k], now)), seen[k], cur[k])]>>

\* the writes and alerts for one key of cur (the open / add / reduce loop)
UpsertOps(st, prev, cur, k, now, send_alert) ==
    LET ev == EventOf(prev, cur, k)
        alert == IF send_alert /\ ev \in {"open", "add", "reduce"}
                 THEN <<[op |-> "send_pos_alert", kind |-> ev, k |-> k]>>
                 ELSE <<>>
    IN  IF ev = "open"
        THEN <<[op |-> "sess_set", k |-> k, v |-> FreshSess(cur[k], now)]>> \o alert
        ELSE alert \o
             <<[op |-> "sess_set", k |-> k,
                v |-> TouchSess(sess_get_or(st, k, RebuiltSess(cur[k], now)), prev[k], cur[k])]>>

\* CloseOps that gives up the Trade of a key whose settlement fetch returned
\* nothing
CloseOps_SkipEmpty(st, prev, k, recs, now, send_alert) ==
    LET s == sess_get_or(st, k, RebuiltSessClose(prev[k], now))
    IN  (IF recs = <<>> THEN <<>>
         ELSE <<[op |-> "hist_push", k |-> k, row |-> CloseRow(s, prev[k], recs, now),
                 call |-> CloseCall(s, prev[k], recs)]>>)
        \o (IF send_alert THEN <<[op |-> "send_pos_alert", kind |-> "close", k |-> k]>> ELSE <<>>)
        \o <<[op |-> "sess_del", k |-> k]>>

\* CloseOps without hist_push(row)
CloseOps_NoPush(st, prev, k, recs, now, send_alert) ==
    (IF send_alert THEN <<[op |-> "send_pos_alert", kind |-> "close", k |-> k]>> ELSE <<>>)
    \o <<[op |-> "sess_del", k |-> k]>>

\* the writes and alerts for one key of prev that is not in cur (the close loop)
CloseOps(st, prev, k, recs, now, send_alert) ==
    LET s == sess_get_or(st, k, RebuiltSessClose(prev[k], now))
    IN  <<[op |-> "hist_push", k |-> k, row |-> CloseRow(s, prev[k], recs, now),
           call |-> CloseCall(s, prev[k], recs)]>>
        \o (IF send_alert THEN <<[op |-> "send_pos_alert", kind |-> "close", k |-> k]>> ELSE <<>>)
        \o <<[op |-> "sess_del", k |-> k]>>

\* DiffOps that persists the snapshot before the close loop
DiffOps_SaveEarly(st, prev, cur, inc, now, send_alert) ==
    Concat([i \in DOMAIN KeyOrder |->
               IF KeyOrder[i] \in DOMAIN cur
               THEN UpsertOps(st, prev, cur, KeyOrder[i], now, send_alert)
               ELSE <<>>])
    \o <<[op |-> "save_open_state", m |-> cur]>>
    \o Concat([i \in DOMAIN KeyOrder |->
               IF KeyOrder[i] \in DOMAIN prev \ DOMAIN cur
               THEN CloseOps(st, prev, KeyOrder[i], inc[KeyOrder[i]], now, send_alert)
               ELSE <<>>])

\* the writes and alerts of a cycle that is not the initial sync, in program
\* order; inc[k] is what fetch_income returns for closing key k
DiffOps(st, prev, cur, inc, now, send_alert) ==
    Concat([i \in DOMAIN KeyOrder |->
               IF KeyOrder[i] \in DOMAIN cur
               THEN UpsertOps(st, prev, cur, KeyOrder[i], now, send_alert)
               ELSE <<>>])
    \o Concat([i \in DOMAIN KeyOrder |->
               IF KeyOrder[i] \in DOMAIN prev \ DOMAIN cur
               THEN CloseOps(st, prev, KeyOrder[i], inc[KeyOrder[i]], now, send_alert)
               ELSE <<>>])
    \o <<[op |-> "save_open_state", m |-> cur]>>

\* prev = open_state(); if not init_done(): ... else: ...
CycleOps(st, cur, inc, now, send_alert) ==
    IF ~st.init_flag
    THEN InitialSyncOps(cur, now)
    ELSE DiffOps(st, st.open_positions, cur, inc, now, send_alert)

\* CountEvents that only looks at the keys of the current snapshot
CountEvents_CurOnly(prev, cur, ev) == Cardinality({k \in DOMAIN cur : EventOf(prev, cur, k) = ev})

\* events[ev] at the return of a cycle that is not the initial sync
CountEvents(prev, cur, ev) == Cardinality({k \in Keys : EventOf(prev, cur, k) = ev})

OpsOf(ops, name) == SelectSeq(ops, LAMBDA o : o.op = name)

\* the dict process_positions returns, with what the cycle did to its
\* collaborators: the send_pos_alert calls and the fee_calc calls, in order
CycleResult(st, cur, ops) ==
    LET pushes == OpsOf(ops, "hist_push")
        sent == OpsOf(ops, "send_pos_alert")
        prev == st.open_positions
    IN  [op |-> "process_positions", ok |-> TRUE, initial_sync |-> ~st.init_flag,
         positions_now |-> Cardinality(DOMAIN cur),
         events |-> IF ~st.init_flag
                    THEN [open |-> 0, add |-> 0, reduce |-> 0, close |-> 0]
                    ELSE [open |-> CountEvents(prev, cur, "open"),
                          add |-> CountEvents(prev, cur, "add"),
                          reduce |-> CountEvents(prev, cur, "reduce"),
                          close |-> CountEvents(prev, cur, "close")],
         closed_trades |-> [i \in DOMAIN pushes |-> pushes[i].row],
         fee_calls |-> [i \in DOMAIN pushes |-> pushes[i].call],
         alerts |-> [i \in DOMAIN sent |-> [kind |-> sent[i].kind, k |-> sent[i].k]]]

----------------------------------------------------------------------------
(* Chats, switches and configuration.  kv maps a Redis key to its value; a   *)
(* key that is not set is not in its domain (R.get returns None).  A time of *)
(* day is a minute of the day, 0 .. DayLen - 1.                              *)

\* CHAT_IDS_POSITION: a private chat and a group chat
PrivateChat == 111
GroupChat == -100
CHAT_IDS_POSITION == <<PrivateChat, GroupChat>>

\* CHAT_IDS: the chats of the signal alerts
CHAT_IDS == <<GroupChat>>

\* ADMIN_USER_IDS, and the users who write to the bot
ADMIN_USER_IDS == {"1001"}
Users == {"1001", "2002"}

SwitchLogKeep == 300

\* a user who is an admin whoever they are
is_admin_Anyone(uid) == TRUE

is_admin(uid) == ADMIN_USER_IDS = {} \/ uid \in ADMIN_USER_IDS

\* REPORT_AUTO_HOUR_DEFAULT : REPORT_AUTO_MINUTE_DEFAULT, as a minute of the day
ReportMinuteDefault == 0

is_group(chat_id) == chat_id < 0

sw_key(kind, chat_id) == <<"switch", kind, chat_id>>
cfg_key(k) == <<"cfg", k>>

\* R.set(k, v), when the store takes it
Set(m, k, v) == [x \in DOMAIN m \cup {k} |-> IF x = k THEN v ELSE m[x]]

\* a group chat's switch reads 1 whatever the store holds
sw_get_GroupOn(m, kind, chat_id) == "1"

sw_get(m, kind, chat_id) ==
    LET d == IF is_group(chat_id) THEN "0" ELSE "1"
        v == IF sw_key(kind, chat_id) \in DOMAIN m THEN m[sw_key(kind, chat_id)] ELSE d
    IN  IF v = "1" THEN "1" ELSE "0"

cfg_get(m, k, d) == IF cfg_key(k) \in DOMAIN m THEN m[cfg_key(k)] ELSE d

\* cfg_init: the keys that are not set get their defaults
cfg_init(m) ==
    LET defaults == [k \in {cfg_key("report_auto"), cfg_key("report_auto_minute"),
                            cfg_key("report_auto_chat")} |->
                        CASE k = cfg_key("report_auto") -> "off"
                          [] k = cfg_key("report_auto_minute") -> ReportMinuteDefault
                          [] k = cfg_key("report_auto_chat") -> PrivateChat]
    IN  [k \in DOMAIN m \cup DOMAIN defaults |-> IF k \in DOMAIN m THEN m[k] ELSE defaults[k]]

\* the group chats of a kind of alert
GroupsOf(kind) ==
    LET ids == IF kind = "signal" THEN CHAT_IDS ELSE CHAT_IDS_POSITION
    IN  {ids[i] : i \in {j \in DOMAIN ids : is_group(ids[j])}}

\* the switch part of bootstrap: a group chat with no switch gets "0"
boot_switches(m) ==
    LET groups == {sw_key(kind, g) : kind \in {"signal"}, g \in GroupsOf("signal")}
                  \cup {sw_key(kind, g) : kind \in {"position"}, g \in GroupsOf("position")}
    IN  [k \in DOMAIN m \cup groups |-> IF k \in DOMAIN m THEN m[k] ELSE "0"]

\* toggle_groups: sw_set for every group chat of the kind
toggle_groups(m, kind, on) ==
    LET groups == {sw_key(kind, g) : g \in GroupsOf(kind)}
    IN  [k \in DOMAIN m \cup groups |->
            IF k \in groups THEN (IF on THEN "1" ELSE "0") ELSE m[k]]

\* send_pos_alert: the chats tg_send is called for, in order
send_pos_alert(m) ==
    SelectSeq(CHAT_IDS_POSITION,
              LAMBDA cid : ~is_group(cid) \/ sw_get(m, "position", cid) = "1")

\* the process has started on a store with none of these keys
Booted ==
    /\ kv = boot_switches(cfg_init(NoSnapshot))
    /\ MEM_THROTTLE = NoSnapshot
    /\ switch_log = <<>>
    /\ tg = <<>>

----------------------------------------------------------------------------
(* The sequential specification: one trigger at a time, each cycle whole *)

NoInput == [cur |-> NoSnapshot, inc |-> NoSnapshot]
NoResult == [op |-> "none"]
NoFeeInput == [symbol |-> "", recs |-> <<>>, closed |-> 0, entry_v |-> 0, exit_v |-> 0]

\* the concurrent /positions_check requests
Requests == {"r1", "r2"}
NoTodo == [ops |-> <<>>, result |-> NoResult, done |-> <<>>]

NoRequests ==
    /\ lock = "free"
    /\ pc = [r \in Requests |-> "idle"]
    /\ todo = [r \in Requests |-> NoTodo]
    /\ blocked = {}

\* The store outlives the process: a run starts on an empty store, or on the
\* store a cold start with no open position has left (flag set, nothing else).
Init ==
    /\ open_positions = NoSnapshot
    /\ init_flag \in BOOLEAN
    /\ sess = NoSnapshot
    /\ hist = [d \in Days |-> <<>>]
    /\ clock = 0
    /\ inp = NoInput
    /\ res = NoResult
    /\ fee_in = NoFeeInput
    /\ fee_out = <<>>
    /\ NoRequests
    /\ Booted

\* one whole cycle on an input drawn from curs and lists
Cycle(curs, lists, send_alert) ==
    /\ clock < MaxClock
    /\ \E cur \in curs :
       \E inc \in [(IF init_flag THEN DOMAIN open_positions \ DOMAIN cur ELSE {}) -> lists] :
       \E ops \in {CycleOps(Store, cur, inc, clock, send_alert)} :
       \E st \in {ApplyOps(Store, ops)} :
          /\ open_positions' = st.open_positions
          /\ init_flag' = st.init_flag
          /\ sess' = st.sess
          /\ hist' = st.hist
          /\ inp' = [cur |-> cur, inc |-> inc]
          /\ res' = CycleResult(Store, cur, ops)
    /\ clock' = clock + 1
    /\ UNCHANGED <<io_vars, fee_vars, req_vars>>

\* /positions_check: process_positions(send_alert=True)
ProcessPositions == Cycle(Snapshots, IncomeLists, TRUE)

\* StateReset that leaves state:init_done in place
StateReset_KeepFlag ==
    /\ clock < MaxClock
    /\ open_positions' = NoSnapshot
    /\ init_flag' = init_flag
    /\ inp' = NoInput
    /\ res' = [op |-> "state_reset"]
    /\ clock' = clock + 1
    /\ UNCHANGED <<io_vars, sess, hist, fee_vars, req_vars>>

\* /tg/position with "/state_reset" from an admin: state_reset()
StateReset ==
    /\ clock < MaxClock
    /\ open_positions' = NoSnapshot
    /\ init_flag' = FALSE
    /\ inp' = NoInput
    /\ res' = [op |-> "state_reset"]
    /\ clock' = clock + 1
    /\ UNCHANGED <<io_vars, sess, hist, fee_vars, req_vars>>

Next ==
    \/ ProcessPositions
    \/ StateReset

Spec == Init /\ [][Next]_vars

----------------------------------------------------------------------------
(* The specification of the diff on one symbol in hedge mode: whole cycles   *)
(* on the two BTCUSDT keys, the Long side reported in every shape below, the *)
(* settlement source down.                                                   *)

\* a quantity within the tolerance of ShapeA's, with another mark price,
\* leverage and margin mode
ShapeD ==
    [qty |-> QtyOne + Eps, entry_price |-> 100 * Usd, mark_price |-> 110 * Usd,
     value |-> 137 * Usd, leverage |-> 20, margin_mode |-> "Isolated", r_pnl |-> 3]

\* twice ShapeA's quantity, the reported notional stale at zero
ShapeE ==
    [qty |-> 2 * QtyOne, entry_price |-> 100 * Usd, mark_price |-> 90 * Usd,
     value |-> 0, leverage |-> 10, margin_mode |-> "Cross", r_pnl |-> 0]

\* three times ShapeA's quantity, the notional above quantity * price
ShapeF ==
    [qty |-> 3 * QtyOne, entry_price |-> 100 * Usd, mark_price |-> 100 * Usd,
     value |-> 400 * Usd, leverage |-> 10, margin_mode |-> "Cross", r_pnl |-> 0]

\* quantity 1 with a mark price of zero
ShapeG ==
    [qty |-> QtyOne, entry_price |-> 95 * Usd, mark_price |-> 0,
     value |-> 95 * Usd, leverage |-> 10, margin_mode |-> "Cross", r_pnl |-> 0]

DiffShapesOf(k) ==
    IF k = pkey("BTCUSDT", "Long") THEN {ShapeA, ShapeD, ShapeE, ShapeF, ShapeG} ELSE {ShapeC}

DiffSnapshots ==
    UNION { {[k \in S |-> Position(k, f[k])] :
                f \in {g \in [S -> UNION {DiffShapesOf(k) : k \in S}] :
                          \A k \in S : g[k] \in DiffShapesOf(k)}} :
            S \in SUBSET {pkey("BTCUSDT", "Long"), pkey("BTCUSDT", "Short")} }

InitDiff == Init

ProcessPositionsDiff == Cycle(DiffSnapshots, {<<>>}, TRUE)

NextDiff == ProcessPositionsDiff

SpecDiff == InitDiff /\ [][NextDiff]_vars

----------------------------------------------------------------------------
(* The specification of fee_calc alone: one call on arguments drawn from     *)
(* bounded sets, the settlement source returning any list of at most MaxRecs *)
(* records of IncomePool                                                     *)

IncomePool ==
    [symbol : {"ETHUSDT", "BTC-USDT", "BTC", ""},
     type : {"REALIZED_PNL", "FUNDING_FEE"},
     amount : {-3, 4}]

SeqsUpTo(S, n) == UNION {[1..m -> S] : m \in 0..n}

\* (closed, entry_v, exit_v): values of either sign
FeeAmounts ==
    { <<30 * Usd, 150 * Usd, 180 * Usd>>,
      <<-100 * Usd, -1000 * Usd, -1100 * Usd>>,
      <<330 * Usd, -150 * Usd, 180 * Usd>> }

FeeInputs ==
    { [symbol |-> sym, recs |-> recs, closed |-> a[1], entry_v |-> a[2], exit_v |-> a[3]] :
        sym \in {"BTCUSDT", "BTC-USDT"}, recs \in SeqsUpTo(IncomePool, MaxRecs), a \in FeeAmounts }

InitFee ==
    /\ open_positions = NoSnapshot
    /\ init_flag = FALSE
    /\ sess = NoSnapshot
    /\ hist = [d \in Days |-> <<>>]
    /\ clock = 0
    /\ inp = NoInput
    /\ res = NoResult
    /\ fee_in \in FeeInputs
    /\ fee_out = <<>>
    /\ NoRequests
    /\ Booted

FeeCalc ==
    /\ fee_out = <<>>
    /\ fee_out' = <<fee_calc(fee_in.symbol, fee_in.recs, fee_in.closed, fee_in.entry_v, fee_in.exit_v)>>
    /\ UNCHANGED <<io_vars, store_vars, clock, inp, res, fee_in, req_vars>>

NextFee == FeeCalc

SpecFee == InitFee /\ [][NextFee]_vars

----------------------------------------------------------------------------
(* The concurrent specification: the web server handles /positions_check     *)
(* requests in threads.  A request waits for LOCK, runs process_positions    *)
(* one store write at a time, runs maybe_auto_report and leaves the with     *)
(* block.  process_positions reads the flag and the previous snapshot when   *)
(* it starts; the Session Records it reads later are written by cycles only, *)
(* so the writes it will make are computed from the store at its start.      *)

\* the position lists the requests of this specification fetch
LockSnapshots ==
    {c \in Snapshots : DOMAIN c \subseteq {pkey("BTCUSDT", "Long"), pkey("BTCUSDT", "Short")}}

InitLock == Init

\* the request reaches "with LOCK:" and waits
Arrive(r) ==
    /\ pc[r] \in {"idle", "done"}
    /\ clock + Cardinality({x \in Requests : pc[x] \in {"waiting", "begin"}}) < MaxClock
    /\ pc' = [pc EXCEPT ![r] = "waiting"]
    /\ blocked' = IF lock # "free" THEN blocked \cup {r} ELSE blocked \ {r}
    /\ UNCHANGED <<io_vars, store_vars, clock, inp, res, fee_vars, lock, todo>>

\* Acquire without LOCK: the request enters whether the lock is held or not
Acquire_NoLock(r) ==
    /\ pc[r] = "waiting"
    /\ lock' = r
    /\ pc' = [pc EXCEPT ![r] = "begin"]
    /\ UNCHANGED <<io_vars, store_vars, clock, inp, res, fee_vars, todo, blocked>>

\* with LOCK: the request enters when the lock is free
Acquire(r) ==
    /\ pc[r] = "waiting"
    /\ lock = "free"
    /\ lock' = r
    /\ pc' = [pc EXCEPT ![r] = "begin"]
    /\ UNCHANGED <<io_vars, store_vars, clock, inp, res, fee_vars, todo, blocked>>

\* process_positions starts: fetch_positions() returns one of curs, then
\* open_state(), init_done()
BeginOn(r, curs) ==
    /\ pc[r] = "begin"
    /\ \E cur \in curs :
       \E ops \in {CycleOps(Store, cur, [k \in DOMAIN open_positions \ DOMAIN cur |-> <<>>], clock, TRUE)} :
          /\ todo' = [todo EXCEPT ![r] = [ops |-> ops, result |-> CycleResult(Store, cur, ops),
                                          done |-> <<>>]]
          /\ inp' = [cur |-> cur, inc |-> [k \in DOMAIN open_positions \ DOMAIN cur |-> <<>>]]
    /\ pc' = [pc EXCEPT ![r] = "writing"]
    /\ clock' = clock + 1
    /\ UNCHANGED <<io_vars, store_vars, res, fee_vars, lock, blocked>>

\* the trace of one call of the cycle: which call, for which key, and whether
\* the store took it
Attempt(op, ok) ==
    [op |-> op.op, k |-> IF "k" \in DOMAIN op THEN op.k ELSE <<>>, ok |-> ok]

Begin(r) == BeginOn(r, LockSnapshots)

\* the next store write (or alert) of the cycle
Write(r) ==
    /\ pc[r] = "writing"
    /\ todo[r].ops # <<>>
    /\ \E st \in {ApplyOp(Store, Head(todo[r].ops))} :
          /\ open_positions' = st.open_positions
          /\ init_flag' = st.init_flag
          /\ sess' = st.sess
          /\ hist' = st.hist
    /\ todo' = [todo EXCEPT ![r].ops = Tail(@),
                            ![r].done = Append(@, Attempt(Head(todo[r].ops), TRUE))]
    /\ UNCHANGED <<io_vars, clock, inp, res, fee_vars, lock, pc, blocked>>

\* process_positions returns
Return(r) ==
    /\ pc[r] = "writing"
    /\ todo[r].ops = <<>>
    /\ res' = todo[r].result
    /\ pc' = [pc EXCEPT ![r] = "report"]
    /\ UNCHANGED <<io_vars, store_vars, clock, inp, fee_vars, lock, todo, blocked>>

\* maybe_auto_report() is done and the with block is left
Release(r) ==
    /\ pc[r] = "report"
    /\ lock' = IF lock = r THEN "free" ELSE lock
    /\ pc' = [pc EXCEPT ![r] = "done"]
    /\ UNCHANGED <<io_vars, store_vars, clock, inp, res, fee_vars, todo, blocked>>

NextLock ==
    \E r \in Requests :
        \/ Arrive(r)
        \/ Acquire(r)
        \/ Begin(r)
        \/ Write(r)
        \/ Return(r)
        \/ Release(r)

SpecLock == InitLock /\ [][NextLock]_vars

----------------------------------------------------------------------------
(* The specification of the cycle among the other things that happen to the  *)
(* store: a /positions_check request runs its cycle one store call at a      *)
(* time; each call may fail (Redis.cmd logs the failure and returns None,    *)
(* and the callers go on); an admin's /state_reset is handled by another     *)
(* thread, which takes no lock; the process may die in the middle of a       *)
(* cycle and start again with bootstrap().                                   *)
(* process_positions reads the previous snapshot and then the flag.  A       *)
(* state_reset between the two reads shows the cycle either what Begin reads *)
(* between the two deletes, or an old snapshot with no flag, which the cold  *)
(* start does not look at; so Begin reads both at once.                      *)

\* the thread that handles /tg/position
Cmd == "cmd"

\* the request that polls /positions_check
Poller == "r1"

InitOps ==
    /\ open_positions = NoSnapshot
    /\ init_flag \in BOOLEAN
    /\ sess = NoSnapshot
    /\ hist = [d \in Days |-> <<>>]
    /\ clock = 0
    /\ inp = NoInput
    /\ res = NoResult
    /\ fee_in = NoFeeInput
    /\ fee_out = <<>>
    /\ lock = "free"
    /\ pc = [r \in Requests \cup {Cmd} |-> "idle"]
    /\ todo = [r \in Requests |-> NoTodo]
    /\ blocked = {}
    /\ Booted

\* the position lists the poller fetches in this specification
\* (no position, the BTCUSDT Long alone, and the Long with the Short)
OpsSnapshots ==
    {c \in LockSnapshots :
        /\ \A k \in DOMAIN c : c[k].qty = QtyOne
        /\ DOMAIN c # {pkey("BTCUSDT", "Short")}}

BeginOps(r) == BeginOn(r, OpsSnapshots)

\* the calls of a cycle that go to the store
StoreCalls == {"sess_set", "sess_del", "hist_push", "save_open_state", "mark_init_done"}

\* the next store call of the cycle fails: R.cmd returns None, nothing is
\* written and the cycle goes on (for hist_push: the LPUSH fails); at most
\* MaxFails calls of one cycle fail
WriteFails(r) ==
    /\ pc[r] = "writing"
    /\ todo[r].ops # <<>>
    /\ Len(SelectSeq(todo[r].done, LAMBDA a : ~a.ok)) < MaxFails
    /\ Head(todo[r].ops).op \in StoreCalls
    /\ todo' = [todo EXCEPT ![r].ops = Tail(@),
                            ![r].done = Append(@, Attempt(Head(todo[r].ops), FALSE))]
    /\ UNCHANGED <<io_vars, store_vars, clock, inp, res, fee_vars, lock, pc, blocked>>

\* state_reset, first line: R.delete("state:open_positions")
ResetSnapshot ==
    /\ pc[Cmd] = "idle"
    /\ clock < MaxClock
    /\ open_positions' = NoSnapshot
    /\ pc' = [pc EXCEPT ![Cmd] = "reset"]
    /\ clock' = clock + 1
    /\ UNCHANGED <<io_vars, init_flag, sess, hist, inp, res, fee_vars, lock, todo, blocked>>

\* state_reset, second line: R.delete("state:init_done")
ResetFlag ==
    /\ pc[Cmd] = "reset"
    /\ init_flag' = FALSE
    /\ pc' = [pc EXCEPT ![Cmd] = "idle"]
    /\ UNCHANGED <<io_vars, open_positions, sess, hist, clock, inp, res, fee_vars, lock, todo, blocked>>

\* a restart whose bootstrap leaves state:init_done as it finds it
Crash_NoRepair(r) ==
    /\ pc[r] = "writing"
    /\ init_flag' = init_flag
    /\ res' = [op |-> "crash", cur |-> inp.cur, done |-> todo[r].done]
    /\ lock' = "free"
    /\ pc' = [x \in DOMAIN pc |-> "idle"]
    /\ todo' = [x \in Requests |-> NoTodo]
    /\ blocked' = {}
    /\ MEM_THROTTLE' = NoSnapshot
    /\ UNCHANGED <<kv, switch_log, tg, open_positions, sess, hist, clock, inp, fee_vars>>

\* the process dies while request r is in its cycle; it starts again with
\* an unlocked LOCK and bootstrap(): a snapshot without the flag sets the flag
Crash(r) ==
    /\ pc[r] = "writing"
    /\ init_flag' = (init_flag \/ open_positions # NoSnapshot)
    /\ res' = [op |-> "crash", cur |-> inp.cur, done |-> todo[r].done]
    /\ lock' = "free"
    /\ pc' = [x \in DOMAIN pc |-> "idle"]
    /\ todo' = [x \in Requests |-> NoTodo]
    /\ blocked' = {}
    /\ MEM_THROTTLE' = NoSnapshot
    /\ UNCHANGED <<kv, switch_log, tg, open_positions, sess, hist, clock, inp, fee_vars>>

NextOps ==
    \/ Arrive(Poller)
    \/ Acquire(Poller)
    \/ BeginOps(Poller)
    \/ Write(Poller)
    \/ WriteFails(Poller)
    \/ Return(Poller)
    \/ Release(Poller)
    \/ ResetSnapshot
    \/ ResetFlag
    \/ Crash(Poller)

SpecOps == InitOps /\ [][NextOps]_vars

----------------------------------------------------------------------------
(* The specification of a full history partition: the store of a process     *)
(* that has been closing positions all day.  Today's list holds one Trade    *)
(* less than hist_push keeps, two positions are open, and cycles and resets  *)
(* go on as in the sequential specification.                                 *)

\* the i-th Trade closed earlier today (the larger i, the older its session)
OldTrade(i) ==
    [symbol |-> "ETHUSDT", side |-> "Long", start_ts |-> -i, close_ts |-> 0,
     entry_price |-> 1000 * Usd, close_price |-> 1100 * Usd,
     total_entry_value |-> 1000 * Usd, total_exit_value |-> 1100 * Usd,
     closed_pnl |-> 100 * Usd, fee_funding |-> 0, realized |-> 100 * Usd,
     margin_mode |-> "Isolated", leverage |-> 5]

\* the snapshot and the Session Records a cold start on two positions has left
HistOpen ==
    [k \in {pkey("BTCUSDT", "Long"), pkey("BTCUSDT", "Short")} |->
        Position(k, IF k[2] = "Long" THEN ShapeA ELSE ShapeC)]

InitHist ==
    /\ open_positions = HistOpen
    /\ init_flag = TRUE
    /\ sess = [k \in DOMAIN HistOpen |-> FreshSess(HistOpen[k], 0)]
    /\ hist = [d \in Days |-> IF d = 0 THEN [i \in 1..(HistKeep - 1) |-> OldTrade(i)] ELSE <<>>]
    /\ clock = 0
    /\ inp = NoInput
    /\ res = NoResult
    /\ fee_in = NoFeeInput
    /\ fee_out = <<>>
    /\ NoRequests
    /\ Booted

\* /positions_check on the two BTCUSDT keys, the settlement source down
ProcessPositionsHist == Cycle(LockSnapshots, {<<>>}, TRUE)

NextHist ==
    \/ ProcessPositionsHist
    \/ StateReset

SpecHist == InitHist /\ [][NextHist]_vars

----------------------------------------------------------------------------
(* The specification of a process that dies in a cycle and starts again: the *)
(* poller runs its cycles one store call at a time on a BTCUSDT Long that is *)
(* opened, added to, reduced and closed; every store call succeeds.          *)

\* the position lists the poller fetches in this specification
CrashSnapshots == {c \in Snapshots : DOMAIN c \subseteq {pkey("BTCUSDT", "Long")}}

InitCrash == Init

BeginCrash(r) == BeginOn(r, CrashSnapshots)

NextCrash ==
    \/ Arrive(Poller)
    \/ Acquire(Poller)
    \/ BeginCrash(Poller)
    \/ Write(Poller)
    \/ Return(Poller)
    \/ Release(Poller)
    \/ Crash(Poller)

SpecCrash == InitCrash /\ [][NextCrash]_vars

----------------------------------------------------------------------------
(* The specification of cycles in which reads of Session Records fail: R.get *)
(* returns None for the keys of unread, so sess_get(k) gives {} although the *)
(* record is in the store; every write succeeds.                             *)

\* the store as a cycle sees it when sess_get fails for the keys of unread
Unread(st, unread) == [st EXCEPT !.sess = [k \in DOMAIN st.sess \ unread |-> st.sess[k]]]

InitUnread == Init

ProcessPositionsUnread ==
    /\ clock < MaxClock
    /\ \E cur \in DiffSnapshots :
       \E unread \in SUBSET DOMAIN sess :
       \E inc \in {[k \in (IF init_flag THEN DOMAIN open_positions \ DOMAIN cur ELSE {}) |-> <<>>]} :
       \E ops \in {CycleOps(Unread(Store, unread), cur, inc, clock, TRUE)} :
       \E st \in {ApplyOps(Store, ops)} :
          /\ open_positions' = st.open_positions
          /\ init_flag' = st.init_flag
          /\ sess' = st.sess
          /\ hist' = st.hist
          /\ inp' = [cur |-> cur, inc |-> inc, unread |-> unread]
          /\ res' = CycleResult(Store, cur, ops)
    /\ clock' = clock + 1
    /\ UNCHANGED <<io_vars, fee_vars, req_vars>>

NextUnread == ProcessPositionsUnread

SpecUnread == InitUnread /\ [][NextUnread]_vars

----------------------------------------------------------------------------
(* The specification of cycles whose position fetch may fail: the exchange   *)
(* holds the positions of held, and each endpoint of fetch_positions_raw     *)
(* either answers with them or fails (bingx_req returns None on an error, a  *)
(* timeout, a status >= 400 or missing credentials).                         *)

\* the endpoints fetch_positions_raw tries, in order
PositionEndpoints == 1 .. 4

\* fetch_positions_raw and the loop of process_positions over its result:
\* the answer of the first endpoint that answers with a non-empty list, or
\* nothing at all
fetch_positions_raw(answers) ==
    LET good == {i \in DOMAIN answers : answers[i].ok /\ answers[i].data # NoSnapshot}
    IN  IF good = {} THEN NoSnapshot
        ELSE answers[CHOOSE i \in good : \A j \in good : i <= j].data

\* what the account can hold in this specification
HeldSnapshots == OpsSnapshots

InitFetch == Init

ProcessPositionsFetch ==
    /\ clock < MaxClock
    /\ \E held \in HeldSnapshots :
       \E up \in SUBSET PositionEndpoints :
       \E answers \in {[i \in PositionEndpoints |-> [ok |-> i \in up, data |-> held]]} :
       \E cur \in {fetch_positions_raw(answers)} :
       \E inc \in {[k \in (IF init_flag THEN DOMAIN open_positions \ DOMAIN cur ELSE {}) |-> <<>>]} :
       \E ops \in {CycleOps(Store, cur, inc, clock, TRUE)} :
       \E st \in {ApplyOps(Store, ops)} :
          /\ open_positions' = st.open_positions
          /\ init_flag' = st.init_flag
          /\ sess' = st.sess
          /\ hist' = st.hist
          /\ inp' = [cur |-> cur, inc |-> inc, held |-> held, up |-> up]
          /\ res' = CycleResult(Store, cur, ops)
    /\ clock' = clock + 1
    /\ UNCHANGED <<io_vars, fee_vars, req_vars>>

NextFetch == ProcessPositionsFetch

SpecFetch == InitFetch /\ [][NextFetch]_vars

----------------------------------------------------------------------------
(* norm_pos and fetch_positions.  A field of a raw record is absent, a JSON  *)
(* number, a string that float() parses, or a string it does not parse; a    *)
(* text field is a string, "" standing for an absent one.                    *)

Absent == [kind |-> "absent", v |-> 0]
Num(n) == [kind |-> "num", v |-> n]
Str(n) == [kind |-> "str", v |-> n]
Junk == [kind |-> "junk", v |-> 0]

\* the truth value Python gives the field in "a or b"
Truthy(x) == x.kind \in {"str", "junk"} \/ (x.kind = "num" /\ x.v # 0)

\* a or b or ... or last
RECURSIVE FirstTruthy(_, _)
FirstTruthy(xs, last) ==
    IF xs = <<>> THEN last
    ELSE IF Truthy(Head(xs)) THEN Head(xs) ELSE FirstTruthy(Tail(xs), last)

\* asf(v, d): float(str(v)), or d for None and for what float() rejects
asf(x, d) == IF x.kind \in {"num", "str"} THEN x.v ELSE d

\* s.strip()
RECURSIVE Strip(_)
Strip(cs) ==
    IF cs = <<>> THEN cs
    ELSE IF Head(cs) = " " THEN Strip(Tail(cs))
    ELSE IF cs[Len(cs)] = " " THEN Strip(SubSeq(cs, 1, Len(cs) - 1))
    ELSE cs

\* a / b for the amounts of this model, whose quotients are whole
Quot(a, b) == a \div b

\* the side of norm_pos that lets a negative signed quantity decide first
SideOf_SignFirst(sraw, qty_signed) ==
    IF qty_signed < 0 THEN "Short"
    ELSE IF Contains(sraw, Chars("short")) \/ sraw \in {Chars("sell"), Chars("2")} THEN "Short"
    ELSE "Long"

\* the if / elif / else on sraw
SideOf(sraw, qty_signed) ==
    IF Contains(sraw, Chars("short")) \/ sraw \in {Chars("sell"), Chars("2")} THEN "Short"
    ELSE IF Contains(sraw, Chars("long")) \/ sraw \in {Chars("buy"), Chars("1")} THEN "Long"
    ELSE IF qty_signed < 0 THEN "Short" ELSE "Long"

\* the quantity of norm_pos without the availableAmt fallback
QtyOf_NoFallback(it, qty_signed) == Abs(qty_signed)

\* qty = abs(qty_signed); if qty <= 0: qty = abs(asf(availableAmt or 0))
QtyOf(it, qty_signed) ==
    IF Abs(qty_signed) <= 0
    THEN Abs(asf(FirstTruthy(<<it.availableAmt>>, Num(0)), 0))
    ELSE Abs(qty_signed)

\* if lev <= 0: lev = (value / margin) if margin > 0 else 1.0
LeverageOf(lev, value, margin) ==
    IF lev <= 0 THEN (IF margin > 0 THEN Quot(value, margin) ELSE 1) ELSE lev

\* ok = FALSE stands for None
norm_pos(it) ==
    LET symbol == Strip(Chars(IF it.symbol # "" THEN it.symbol ELSE it.ticker))
        qty_signed == asf(FirstTruthy(<<it.positionAmt>>, Num(0)), 0)
        sraw == LowerStr(Chars(it.positionSide))
        qty == QtyOf(it, qty_signed)
        entry == asf(FirstTruthy(<<it.avgPrice>>, Num(0)), 0)
        mark == asf(FirstTruthy(<<it.markPrice>>, Num(entry)), entry)
        lev == asf(FirstTruthy(<<it.leverage>>, Num(0)), 0)
        mm == Chars(it.marginType)
        value == asf(FirstTruthy(<<it.positionValue>>, Num(Mul(qty, mark))), Mul(qty, mark))
        derived == IF lev > 0 THEN Quot(value, lev) ELSE 0
        margin == asf(FirstTruthy(<<it.positionMargin>>, Num(derived)), derived)
    IN  IF symbol = <<>> \/ qty <= 0
        THEN [ok |-> FALSE]
        ELSE [ok |-> TRUE, symbol |-> symbol, side |-> SideOf(sraw, qty_signed), qty |-> qty,
              entry_price |-> entry, mark_price |-> mark,
              leverage |-> LeverageOf(lev, value, margin),
              margin_mode |-> IF Contains(LowerStr(mm), Chars("isol")) \/ mm \in {Chars("true"), Chars("1")}
                              THEN "Isolated" ELSE "Cross",
              value |-> value, margin |-> margin]

\* fetch_positions: the records norm_pos did not reject, in order
fetch_positions(raws) ==
    LET outs == [i \in DOMAIN raws |-> norm_pos(raws[i])]
    IN  SelectSeq(outs, LAMBDA n : n.ok)

\* (symbol, ticker)
RawNames == {<<"", "">>, <<" ", "">>, <<"", "ETHUSDT">>, <<"BTCUSDT", "">>}

\* (positionAmt, availableAmt)
RawQuantities ==
    ({Num(QtyOne), Num(-QtyOne), Str(-2 * QtyOne)} \X {Absent})
    \cup ({Absent, Num(0), Str(0)} \X {Absent, Num(QtyOne), Str(-QtyOne)})

RawSides == {"", "LONG", "SHORT", "Sell", "2", "BOTH"}

\* (markPrice, marginType)
RawMarks == {<<Absent, "">>, <<Str(110 * Usd), "ISOLATED">>}

\* (leverage, positionValue, positionMargin)
RawLeverages ==
    {Absent, Num(0), Num(-5), Str(10), Junk}
    \X {Absent, Str(0), Str(100 * Usd), Str(-100 * Usd)}
    \X {Absent, Str(0), Str(10 * Usd)}

RawRecords ==
    { [symbol |-> n[1], ticker |-> n[2], positionAmt |-> q[1], availableAmt |-> q[2],
       positionSide |-> sd, avgPrice |-> Num(100 * Usd), markPrice |-> m[1],
       marginType |-> m[2], leverage |-> l[1], positionValue |-> l[2],
       positionMargin |-> l[3]] :
        n \in RawNames, q \in RawQuantities, sd \in RawSides, m \in RawMarks, l \in RawLeverages }

\* a record of the same answer that norm_pos accepts
NextRaw ==
    [symbol |-> "ETHUSDT", ticker |-> "", positionAmt |-> Str(QtyOne), availableAmt |-> Absent,
     positionSide |-> "LONG", avgPrice |-> Num(100 * Usd), markPrice |-> Absent,
     marginType |-> "", leverage |-> Num(10), positionValue |-> Absent,
     positionMargin |-> Absent]

InitNorm ==
    /\ open_positions = NoSnapshot
    /\ init_flag = FALSE
    /\ sess = NoSnapshot
    /\ hist = [d \in Days |-> <<>>]
    /\ clock = 0
    /\ inp \in {[raw |-> it] : it \in RawRecords}
    /\ res = NoResult
    /\ fee_in = NoFeeInput
    /\ fee_out = <<>>
    /\ NoRequests
    /\ Booted

\* fetch_positions on the answer [raw, NextRaw]
FetchPositions ==
    /\ res = NoResult
    /\ res' = [op |-> "fetch_positions", n |-> norm_pos(inp.raw),
               out |-> fetch_positions(<<inp.raw, NextRaw>>)]
    /\ UNCHANGED <<io_vars, store_vars, clock, inp, fee_vars, req_vars>>

NextNorm == FetchPositions

SpecNorm == InitNorm /\ [][NextNorm]_vars

----------------------------------------------------------------------------
(* The specification of the PanTerra throttle: two /tv-webhook requests are  *)
(* handled by two threads of the server, with no lock; the clock counts      *)
(* throttle half-windows (ThrottleSec = 2 stands for sec = 1800).            *)

\* the (symbol, side) pairs of the PanTerra signals
SignalKeys == {<<"BTCUSDT", "Long">>, <<"BTCUSDT", "Short">>, <<"ETHUSDT", "Long">>}

throttle_key(symbol, side) == <<"throttle", "panterra", symbol, side>>

InitThrottle ==
    /\ Init
    /\ init_flag = FALSE

\* time passes
Tick ==
    /\ clock < MaxClock
    /\ clock' = clock + 1
    /\ UNCHANGED <<io_vars, store_vars, inp, res, fee_vars, req_vars>>

\* panterra_throttle up to its decision: now = time.time(), last = R.get(k),
\* last_mem = MEM_THROTTLE.get(k); TRUE (throttled) is returned at once
ThrottleCheck(w) ==
    /\ pc[w] = "idle"
    /\ Len(tg) + Cardinality({x \in Requests : pc[x] = "marking"}) < MaxSent
    /\ \E sk \in SignalKeys :
          LET k == throttle_key(sk[1], sk[2])
              now == clock
              in_redis == k \in DOMAIN kv
              last == IF in_redis THEN kv[k] ELSE MEM_THROTTLE[k]
              known == in_redis \/ k \in DOMAIN MEM_THROTTLE
              throttled == known /\ now - last < ThrottleSec
          IN  /\ inp' = [signal |-> sk, now |-> now]
              /\ IF throttled
                 THEN /\ res' = [op |-> "build_signal_msg", signal |-> sk, now |-> now, msg |-> FALSE]
                      /\ UNCHANGED <<pc, todo>>
                 ELSE /\ pc' = [pc EXCEPT ![w] = "marking"]
                      /\ todo' = [todo EXCEPT ![w] = [ops |-> <<>>, done |-> <<>>,
                                     result |-> [op |-> "build_signal_msg", signal |-> sk,
                                                 now |-> now, msg |-> TRUE, redis |-> in_redis]]]
                      /\ UNCHANGED res
    /\ UNCHANGED <<io_vars, store_vars, clock, fee_vars, lock, blocked>>

\* R.set(k, str(now)) or MEM_THROTTLE[k] = now, return False, and the message
\* goes out: send_signal_alert(tpl_panterra(...))
ThrottleMark(w) ==
    /\ pc[w] = "marking"
    /\ LET r == todo[w].result
           k == throttle_key(r.signal[1], r.signal[2])
       IN  /\ IF r.redis
              THEN kv' = Set(kv, k, r.now) /\ UNCHANGED MEM_THROTTLE
              ELSE MEM_THROTTLE' = Set(MEM_THROTTLE, k, r.now) /\ UNCHANGED kv
           /\ tg' = Append(tg, [kind |-> "panterra", signal |-> r.signal, now |-> r.now])
           /\ res' = r
    /\ pc' = [pc EXCEPT ![w] = "idle"]
    /\ todo' = [todo EXCEPT ![w] = NoTodo]
    /\ UNCHANGED <<switch_log, store_vars, clock, inp, fee_vars, lock, blocked>>

NextThrottle ==
    \/ Tick
    \/ \E w \in Requests : ThrottleCheck(w) \/ ThrottleMark(w)

SpecThrottle == InitThrottle /\ [][NextThrottle]_vars

----------------------------------------------------------------------------
(* The specification of the auto report: /positions_check and /health_check  *)
(* requests reach maybe_auto_report() under LOCK, while time passes; the     *)
(* clock counts minutes, a day has DayLen of them, and the report is set for *)
(* minute ReportMinuteDefault of the day.  An admin has sent /report_auto_on.*)

\* a clock on which every minute is the minute of the report
MinuteOfDay_Always(t) == ReportMinuteDefault

\* now.hour, now.minute
MinuteOfDay(t) == t % DayLen

InitReport ==
    /\ open_positions = NoSnapshot
    /\ init_flag = FALSE
    /\ sess = NoSnapshot
    /\ hist = [d \in Days |-> <<>>]
    /\ clock = 0
    /\ inp = NoInput
    /\ res = NoResult
    /\ fee_in = NoFeeInput
    /\ fee_out = <<>>
    /\ NoRequests
    /\ kv = Set(boot_switches(cfg_init(NoSnapshot)), cfg_key("report_auto"), "on")
    /\ MEM_THROTTLE = NoSnapshot
    /\ switch_log = <<>>
    /\ tg = <<>>

\* a trigger reaches "with LOCK:"
ReportArrive(r) ==
    /\ pc[r] \in {"idle", "done"}
    /\ pc' = [pc EXCEPT ![r] = "waiting"]
    /\ UNCHANGED <<io_vars, store_vars, clock, inp, res, fee_vars, lock, todo, blocked>>

\* maybe_auto_report down to the decision to send: cfg_init(), the switch,
\* the time of day, the slot last sent
ReportRead(r) ==
    /\ pc[r] = "begin"
    /\ Len(tg) + Cardinality({x \in Requests : pc[x] = "sending"}) < MaxSent
    /\ LET m == cfg_init(kv)
           now == clock
           slot == now
           chat == cfg_get(m, "report_auto_chat", 0)
       IN  /\ kv' = m
           /\ inp' = [now |-> now]
           /\ IF cfg_get(m, "report_auto", "off") # "on"
              THEN /\ res' = [op |-> "maybe_auto_report", sent |-> FALSE, reason |-> "auto_off"]
                   /\ pc' = [pc EXCEPT ![r] = "report"]
                   /\ UNCHANGED todo
              ELSE IF MinuteOfDay(now) # cfg_get(m, "report_auto_minute", ReportMinuteDefault)
              THEN /\ res' = [op |-> "maybe_auto_report", sent |-> FALSE, reason |-> "not_target_time"]
                   /\ pc' = [pc EXCEPT ![r] = "report"]
                   /\ UNCHANGED todo
              ELSE IF cfg_get(m, "report_auto_last_slot", -1) = slot
              THEN /\ res' = [op |-> "maybe_auto_report", sent |-> FALSE, reason |-> "already_sent"]
                   /\ pc' = [pc EXCEPT ![r] = "report"]
                   /\ UNCHANGED todo
              ELSE IF chat = 0
              THEN /\ res' = [op |-> "maybe_auto_report", sent |-> FALSE, reason |-> "no_target_chat"]
                   /\ pc' = [pc EXCEPT ![r] = "report"]
                   /\ UNCHANGED todo
              ELSE /\ todo' = [todo EXCEPT ![r] = [ops |-> <<>>, done |-> <<>>,
                                  result |-> [op |-> "maybe_auto_report", sent |-> TRUE,
                                              slot |-> slot, chat_id |-> chat]]]
                   /\ pc' = [pc EXCEPT ![r] = "sending"]
                   /\ UNCHANGED res
    /\ UNCHANGED <<MEM_THROTTLE, switch_log, tg, store_vars, clock, fee_vars, lock, blocked>>

\* send_report_summary(chat, date)
ReportSend(r) ==
    /\ pc[r] = "sending"
    /\ tg' = Append(tg, [kind |-> "report", chat_id |-> todo[r].result.chat_id,
                         slot |-> todo[r].result.slot, at |-> clock])
    /\ pc' = [pc EXCEPT ![r] = "saving"]
    /\ UNCHANGED <<kv, MEM_THROTTLE, switch_log, store_vars, clock, inp, res, fee_vars, lock, todo, blocked>>

\* cfg_set("report_auto_last_slot", slot) and return
ReportSave(r) ==
    /\ pc[r] = "saving"
    /\ kv' = Set(kv, cfg_key("report_auto_last_slot"), todo[r].result.slot)
    /\ res' = todo[r].result
    /\ todo' = [todo EXCEPT ![r] = NoTodo]
    /\ pc' = [pc EXCEPT ![r] = "report"]
    /\ UNCHANGED <<MEM_THROTTLE, switch_log, tg, store_vars, clock, inp, fee_vars, lock, blocked>>

NextReport ==
    \/ Tick
    \/ \E r \in Requests :
          \/ ReportArrive(r)
          \/ Acquire(r)
          \/ ReportRead(r)
          \/ ReportSend(r)
          \/ ReportSave(r)
          \/ Release(r)

SpecReport == InitReport /\ [][NextReport]_vars

----------------------------------------------------------------------------
(* The specification of the chat commands: /tg/position updates from an      *)
(* admin in the private chat and from another user in the group, on a        *)
(* store that holds a previous snapshot or none.                             *)

Commands ==
    {"/help", "/status", "/report_summary", "/report_detail", "/report_auto_status",
     "/sig_on", "/sig_off", "/pos_on", "/pos_off", "/report_auto_on",
     "/report_auto_off", "/say", "/say_sig", "/switch_logs", "/pos_snapshot",
     "/state_reset", "/health_check", "/nosuch"}

\* what handle_command works on
Controlled ==
    [kv |-> kv, switch_log |-> switch_log, open_positions |-> open_positions,
     init_flag |-> init_flag]

\* tg_send(token, cid, m) for every chat of a list
Announce(ids) == [i \in DOMAIN ids |-> [kind |-> "announcement", chat_id |-> ids[i]]]

\* handle_command: the state it leaves, the messages it sends itself, and the
\* reply it returns ("" for None)
handle_command(st, chat_id, uid, cmd) ==
    LET Reply(s, text) ==
            [kv |-> s.kv, switch_log |-> s.switch_log, open_positions |-> s.open_positions,
             init_flag |-> s.init_flag, sent |-> <<>>, reply |-> text]
        Sent(msgs, text) == [Reply(st, text) EXCEPT !.sent = msgs]
        Logged == [st EXCEPT !.switch_log =
                      rpush_json(@, [cmd |-> cmd, uid |-> uid], SwitchLogKeep)]
        Toggle(kind, on) ==
            [Logged EXCEPT !.kv = toggle_groups(@, kind, on)]
    IN  CASE cmd = "/help" -> Reply(st, "help")
          [] cmd = "/status" -> Reply([st EXCEPT !.kv = cfg_init(@)], "status")
          [] cmd = "/report_summary" ->
                Sent(<<[kind |-> "report", chat_id |-> chat_id]>>, "")
          [] cmd = "/report_detail" ->
                Sent(<<[kind |-> "report_detail", chat_id |-> chat_id]>>, "")
          [] cmd = "/report_auto_status" -> Reply(st, "report_auto_status")
          [] OTHER ->
             IF ~is_admin(uid) THEN Reply(st, "refused")
             ELSE CASE cmd = "/sig_on" -> Reply(Toggle("signal", TRUE), "on")
                    [] cmd = "/sig_off" -> Reply(Toggle("signal", FALSE), "off")
                    [] cmd = "/pos_on" -> Reply(Toggle("position", TRUE), "on")
                    [] cmd = "/pos_off" -> Reply(Toggle("position", FALSE), "off")
                    [] cmd = "/report_auto_on" ->
                          Reply([st EXCEPT !.kv =
                                    Set(Set(@, cfg_key("report_auto"), "on"),
                                        cfg_key("report_auto_minute"), ReportMinuteDefault)],
                                "report_auto_on")
                    [] cmd = "/report_auto_off" ->
                          Reply([st EXCEPT !.kv = Set(@, cfg_key("report_auto"), "off")],
                                "report_auto_off")
                    [] cmd = "/say" -> Sent(Announce(CHAT_IDS_POSITION), "said")
                    [] cmd = "/say_sig" -> Sent(Announce(CHAT_IDS), "said")
                    [] cmd = "/switch_logs" -> Reply(st, "switch_logs")
                    [] cmd = "/pos_snapshot" -> Reply(st, "pos_snapshot")
                    [] cmd = "/state_reset" ->
                          Reply([st EXCEPT !.open_positions = NoSnapshot, !.init_flag = FALSE],
                                "state_reset")
                    [] cmd = "/health_check" -> Reply(st, "ok")
                    [] OTHER -> Reply(st, "unknown")

\* a run that starts where an earlier one left a previous snapshot, or none
InitCmd ==
    /\ \E cur \in CrashSnapshots :
          /\ open_positions = cur
          /\ init_flag = (cur # NoSnapshot)
    /\ sess = NoSnapshot
    /\ hist = [d \in Days |-> <<>>]
    /\ clock = 0
    /\ inp = NoInput
    /\ res = NoResult
    /\ fee_in = NoFeeInput
    /\ fee_out = <<>>
    /\ NoRequests
    /\ Booted

\* the chat a user writes in: the admin in the private chat, others in the group
ChatOf(uid) == IF uid \in ADMIN_USER_IDS THEN PrivateChat ELSE GroupChat

\* /tg/position: handle_command, then tg_send of its reply to the chat
TgPosition ==
    \E uid \in Users, cmd \in Commands :
       LET chat_id == ChatOf(uid)
           out == handle_command(Controlled, chat_id, uid, cmd)
           msgs == out.sent \o (IF out.reply = "" THEN <<>>
                                ELSE <<[kind |-> "reply", chat_id |-> chat_id]>>)
       IN  /\ Len(tg) + Len(msgs) <= MaxSent
           /\ kv' = out.kv
           /\ switch_log' = out.switch_log
           /\ open_positions' = out.open_positions
           /\ init_flag' = out.init_flag
           /\ tg' = tg \o msgs
           /\ inp' = [chat_id |-> chat_id, uid |-> uid, cmd |-> cmd]
           /\ res' = [op |-> "handle_command", reply |-> out.reply]
           /\ UNCHANGED <<MEM_THROTTLE, sess, hist, clock, fee_vars, req_vars>>

NextCmd == TgPosition

SpecCmd == InitCmd /\ [][NextCmd]_vars

----------------------------------------------------------------------------
(* The specification of the position alerts: whole cycles run with           *)
(* send_alert, each send_pos_alert call recorded with the chats it sent to.  *)
(* The store outlives the process, so the run starts with the group's        *)
(* position switch as earlier runs left it: off as bootstrap writes it, on   *)
(* after an admin's /pos_on, or not set when the write of bootstrap did not  *)
(* reach the store.                                                          *)

SwitchStores ==
    LET booted == boot_switches(cfg_init(NoSnapshot))
        k == sw_key("position", GroupChat)
    IN  {booted, toggle_groups(booted, "position", TRUE),
         [x \in DOMAIN booted \ {k} |-> booted[x]]}

InitAlert ==
    /\ open_positions = NoSnapshot
    /\ init_flag \in BOOLEAN
    /\ sess = NoSnapshot
    /\ hist = [d \in Days |-> <<>>]
    /\ clock = 0
    /\ inp = NoInput
    /\ res = NoResult
    /\ fee_in = NoFeeInput
    /\ fee_out = <<>>
    /\ NoRequests
    /\ kv \in SwitchStores
    /\ MEM_THROTTLE = NoSnapshot
    /\ switch_log = <<>>
    /\ tg = <<>>

\* /positions_check: process_positions(send_alert=True), with the deliveries
\* of its send_pos_alert calls
ProcessPositionsAlert ==
    /\ clock < MaxClock
    /\ \E cur \in DiffSnapshots :
       LET closing == IF init_flag THEN DOMAIN open_positions \ DOMAIN cur ELSE {}
           inc == [k \in closing |-> <<>>]
           ops == CycleOps(Store, cur, inc, clock, TRUE)
           st == ApplyOps(Store, ops)
           sent == OpsOf(ops, "send_pos_alert")
       IN  /\ open_positions' = st.open_positions
           /\ init_flag' = st.init_flag
           /\ sess' = st.sess
           /\ hist' = st.hist
           /\ inp' = [cur |-> cur, inc |-> inc]
           /\ res' = CycleResult(Store, cur, ops)
           /\ tg' = tg \o [i \in DOMAIN sent |->
                              [kind |-> "position", alert |-> sent[i].kind, k |-> sent[i].k,
                               to |-> send_pos_alert(kv)]]
    /\ clock' = clock + 1
    /\ UNCHANGED <<kv, MEM_THROTTLE, switch_log, fee_vars, req_vars>>

NextAlert == ProcessPositionsAlert

SpecAlert == InitAlert /\ [][NextAlert]_vars

----------------------------------------------------------------------------
(* Vocabulary of the properties *)

\* process_positions is in progress in request r
InCycle(r) == pc[r] \in {"begin", "writing"}

\* the record's symbol, stripped of non-alphanumerics and upper-cased, is
\* neither a substring nor a superstring of the normalized requested symbol
ForeignSymbol(symbol, r) ==
    /\ ~Contains(NormSymbol(symbol), NormSymbol(r.symbol))
    /\ ~Contains(NormSymbol(r.symbol), NormSymbol(symbol))

\* the fallback result for the arguments a
FallbackOf(a) ==
    [closed_pnl |-> a.closed,
     fee_funding |-> -((Abs(a.entry_v) + Abs(a.exit_v)) \div FeeDen),
     realized |-> a.closed - ((Abs(a.entry_v) + Abs(a.exit_v)) \div FeeDen)]

\* the sum of the amounts of the records of recs that satisfy Keep
AmountsWhere(recs, Keep(_)) ==
    SumSeq([i \in DOMAIN recs |-> IF Keep(recs[i]) THEN recs[i].amount ELSE 0])

ZeroEvents == [open |-> 0, add |-> 0, reduce |-> 0, close |-> 0]

\* this step is a cycle (process_positions ran from the unprimed store on inp'.cur)
CycleStep == clock' = clock + 1 /\ res'.op = "process_positions"

AllTrades(h) == Concat([i \in 1..Cardinality(DOMAIN h) |-> h[i - 1]])

\* the number of Trades of key k in the history h, over all its day lists
TradeCount(h, k) ==
    Len(SelectSeq(AllTrades(h), LAMBDA row : pkey(row.symbol, row.side) = k))

RowCount(rows, k) == Len(SelectSeq(rows, LAMBDA row : pkey(row.symbol, row.side) = k))

----------------------------------------------------------------------------
(* C1  Cold-start suppression.  A cycle that starts with the initial-sync    *)
(* flag unset writes a Session Record for every key of the current snapshot  *)
(* (total_entry_value = the position's notional, total_exit_value = 0) and   *)
(* for no other key, persists the current snapshot as the previous one, sets *)
(* the flag, sends no position alert, appends no Trade, and returns zero     *)
(* event counts and an empty closed_trades list.                             *)
C1_ColdStartSuppression ==
    [][ (CycleStep /\ ~init_flag) =>
          /\ \A k \in DOMAIN inp'.cur :
                /\ k \in DOMAIN sess'
                /\ sess'[k].total_entry_value = inp'.cur[k].value
                /\ sess'[k].total_exit_value = 0
          /\ \A k \in Keys \ DOMAIN inp'.cur :
                /\ k \in DOMAIN sess' <=> k \in DOMAIN sess
                /\ k \in DOMAIN sess => sess'[k] = sess[k]
          /\ open_positions' = inp'.cur
          /\ init_flag'
          /\ res'.initial_sync
          /\ res'.alerts = <<>>
          /\ hist' = hist
          /\ res'.events = ZeroEvents
          /\ res'.closed_trades = <<>>
      ]_vars

\* a cold start on three positions has run: three Session Records, the
\* snapshot persisted, the flag set, nothing sent
C1_Witness ==
    /\ res.op = "process_positions"
    /\ res.initial_sync
    /\ res.positions_now = 3
    /\ DOMAIN sess = Keys
    /\ \A k \in Keys : sess[k].start_ts = clock - 1
    /\ DOMAIN open_positions = Keys
    /\ init_flag
    /\ res.alerts = <<>>

(* C2  Idempotence of no-change cycles.  With the flag set, a cycle that     *)
(* follows a cycle on the same position list returns zero events, appends no *)
(* Trade, and leaves total_entry_value and total_exit_value of every Session *)
(* Record as they were.                                                      *)
C2_NoChangeIdempotent ==
    [][ (CycleStep /\ init_flag /\ res.op = "process_positions" /\ inp'.cur = inp.cur) =>
          /\ res'.events = ZeroEvents
          /\ res'.closed_trades = <<>>
          /\ hist' = hist
          /\ DOMAIN sess' = DOMAIN sess
          /\ \A k \in DOMAIN sess :
                /\ sess'[k].total_entry_value = sess[k].total_entry_value
                /\ sess'[k].total_exit_value = sess[k].total_exit_value
      ]_vars

\* the second of two cycles on the same non-empty list has run, after a first
\* one that had events
C2_Witness ==
    /\ res.op = "process_positions"
    /\ ~res.initial_sync
    /\ res.events = ZeroEvents
    /\ inp.cur = open_positions
    /\ DOMAIN inp.cur # {}
    /\ \E k \in DOMAIN sess : sess[k].start_ts = clock - 2 /\ sess[k].last_qty = inp.cur[k].qty
    /\ clock = 3

(* C3  Trade exactly once per close.  Every cycle appends exactly one Trade  *)
(* to the history, and returns exactly one row in closed_trades, for each    *)
(* key that is in the persisted previous snapshot and absent from the        *)
(* current one, and none for any other key; no other operation changes the   *)
(* history.                                                                  *)
C3_TradeOncePerClose ==
    [][ /\ CycleStep =>
            \A k \in Keys :
                LET n == IF k \in DOMAIN open_positions \ DOMAIN inp'.cur THEN 1 ELSE 0
                IN  /\ TradeCount(hist', k) = TradeCount(hist, k) + n
                    /\ RowCount(res'.closed_trades, k) = n
        /\ ~CycleStep => hist' = hist
      ]_vars

\* a cycle has closed one key, which has its one Trade, while another key
\* that stayed open has none
C3_Witness ==
    /\ res.op = "process_positions"
    /\ res.events.close = 1
    /\ \E k \in Keys : RowCount(res.closed_trades, k) = 1 /\ TradeCount(hist, k) = 1
    /\ \E k \in DOMAIN open_positions : TradeCount(hist, k) = 0 /\ sess[k].start_ts < clock - 1

(* C4  Conservation.  In every Trade row of the history the stored realized  *)
(* equals the stored closed_pnl plus the stored fee_funding, each of the     *)
(* three being the value after its rounding to 8 decimals.                   *)
C4_Conservation ==
    \A i \in DOMAIN AllTrades(hist) :
        LET row == AllTrades(hist)[i]
        IN  row.realized = row.closed_pnl + row.fee_funding

(* C5  Open, add, close.  With the flag set and BTCUSDT Long the only        *)
(* position observed: (1) on an empty previous snapshot, quantity 1 at price *)
(* 100 gives one open event and total_entry_value 100; (2) the next cycle,   *)
(* with quantity 1.5 at entry price 100 (notional 150, last mark 120), gives *)
(* one add event and total_entry_value 150; (3) the next cycle, with the key *)
(* absent, gives one close event whose Trade has total_exit_value 180 and    *)
(* whose closed-PnL estimate is +30.                                         *)
C5_Key == pkey("BTCUSDT", "Long")

C5_Obs1(p) ==
    p.qty = QtyOne /\ p.entry_price = 100 * Usd /\ p.mark_price = 100 * Usd /\ p.value = 100 * Usd

C5_Obs2(p) ==
    /\ 2 * p.qty = 3 * QtyOne
    /\ p.entry_price = 100 * Usd
    /\ p.mark_price = 120 * Usd
    /\ p.value = 150 * Usd

C6_SideCorrectSign ==
    res.op = "process_positions" =>
        \A i \in DOMAIN res.fee_calls :
            LET row == res.closed_trades[i]
                est == res.fee_calls[i].closed
            IN  /\ row.side = "Long" => est = row.total_exit_value - row.total_entry_value
                /\ row.side = "Short" => est = row.total_entry_value - row.total_exit_value
                /\ row.side \in {"Long", "Short"}

\* one cycle has closed a Long and a Short, both entered at 1000 and left at
\* 1100: the estimates are +100 and -100
C6_Witness ==
    /\ res.op = "process_positions"
    /\ \E i, j \in DOMAIN res.fee_calls :
          /\ res.closed_trades[i].side = "Long"
          /\ res.closed_trades[j].side = "Short"
          /\ \A n \in {i, j} :
                /\ res.closed_trades[n].total_entry_value = 1000 * Usd
                /\ res.closed_trades[n].total_exit_value = 1100 * Usd
          /\ res.fee_calls[i].closed = 100 * Usd
          /\ res.fee_calls[j].closed = -100 * Usd

(* C7  Fallback on filtered-to-empty.  When the settlement source returns a  *)
(* non-empty list of which the symbol filter removes every record, fee_calc  *)
(* returns the fallback result: closed_pnl = the estimate, fee_funding =     *)
(* -(|entry| + |exit|) * taker fee rate, realized = their sum.               *)
C7_FilteredToEmptyFallback ==
    ( /\ fee_out # <<>>
      /\ fee_in.recs # <<>>
      /\ \A i \in DOMAIN fee_in.recs : ForeignSymbol(fee_in.symbol, fee_in.recs[i]) )
    => fee_out[1] = FallbackOf(fee_in)

(* C8  Fallback activation.  When fetch_income returns an empty list,        *)
(* fee_calc returns closed_pnl = the estimate, fee_funding = -(|entry| +     *)
(* |exit|) * taker fee rate and realized = closed_pnl + fee_funding, for     *)
(* entry and exit values of either sign.                                     *)
C8_FallbackActivation ==
    (fee_out # <<>> /\ fee_in.recs = <<>>) =>
        /\ fee_out[1].closed_pnl = fee_in.closed
        /\ fee_out[1].fee_funding * FeeDen = -(Abs(fee_in.entry_v) + Abs(fee_in.exit_v))
        /\ fee_out[1].fee_funding <= 0
        /\ fee_out[1].realized = fee_out[1].closed_pnl + fee_out[1].fee_funding

\* fee_calc has returned the fallback for a negative entry and a negative
\* exit value
C8_Witness ==
    /\ fee_out # <<>>
    /\ fee_in.recs = <<>>
    /\ fee_in.entry_v < 0
    /\ fee_in.exit_v < 0
    /\ fee_out[1].fee_funding < 0
    /\ fee_out[1].closed_pnl = fee_in.closed

(* C9  The settlement filter rejects foreign symbols.  In a reconciliation   *)
(* on a non-empty list, closed_pnl, fee_funding and realized are the sums of *)
(* the amounts of the records that are not foreign to the requested symbol   *)
(* (by type, and in all): a foreign record adds nothing, whatever its type   *)
(* and amount.                                                               *)
C9_ForeignAddsNothing ==
    (fee_out # <<>> /\ fee_in.recs # <<>>) =>
        /\ fee_out[1].closed_pnl =
              AmountsWhere(fee_in.recs,
                  LAMBDA r : ~ForeignSymbol(fee_in.symbol, r) /\ ~IsFeeType(r.type))
        /\ fee_out[1].fee_funding =
              AmountsWhere(fee_in.recs,
                  LAMBDA r : ~ForeignSymbol(fee_in.symbol, r) /\ IsFeeType(r.type))
        /\ fee_out[1].realized =
              AmountsWhere(fee_in.recs, LAMBDA r : ~ForeignSymbol(fee_in.symbol, r))

\* a BTCUSDT reconciliation has returned on a list that holds an ETHUSDT
\* record beside a record of its own symbol
C9_Witness ==
    /\ fee_out # <<>>
    /\ fee_in.symbol = "BTCUSDT"
    /\ Len(fee_in.recs) = 2
    /\ fee_in.recs[1].symbol = "ETHUSDT"
    /\ fee_in.recs[1].type = "FUNDING_FEE"
    /\ fee_in.recs[2].symbol = "BTC-USDT"
    /\ fee_in.recs[2].type = "REALIZED_PNL"
    /\ fee_out[1].closed_pnl = fee_in.recs[2].amount
    /\ fee_out[1].fee_funding = 0
    /\ fee_out[1].realized = fee_in.recs[2].amount

(* C10  Mutual exclusion of cycles.  No two executions of process_positions  *)
(* are in progress at once: while one is, it holds LOCK, and every cycle     *)
(* that another request has started has made all its writes, the snapshot    *)
(* write included, and has returned.                                         *)
C10_MutualExclusion ==
    \A r \in Requests :
        InCycle(r) =>
            /\ lock = r
            /\ \A x \in Requests \ {r} :
                  /\ ~InCycle(x)
                  /\ pc[x] \in {"idle", "waiting", "done"}
                  /\ todo[x].ops = <<>>

\* a request that arrived while a cycle was in flight is in its own cycle,
\* after the other request's cycle has persisted its snapshot and returned
C10_Witness ==
    \E r \in Requests :
        /\ r \in blocked
        /\ pc[r] = "writing"
        /\ todo[r].ops # <<>>
        /\ \E x \in Requests \ {r} :
              /\ pc[x] = "done"
              /\ todo[x].result.op = "process_positions"
              /\ DOMAIN open_positions # {}

----------------------------------------------------------------------------
(* Vocabulary of the properties about the steps of a cycle *)

\* request r has read the previous snapshot and has not yet come to its
\* snapshot write
BeforeSave(r) ==
    /\ pc[r] = "writing"
    /\ \E i \in DOMAIN todo[r].ops : todo[r].ops[i].op = "save_open_state"

\* the calls the cycle of request r has made so far
Done(r) == todo[r].done

(* C11  Cycle atomicity against every concurrent trigger.  Between a         *)
(* cycle's read of the previous snapshot and its snapshot write, no step     *)
(* other than the cycle's own changes the persisted snapshot, the init flag  *)
(* or a Session Record.                                                      *)
C11_CycleAtomic ==
    [][\A r \in Requests :
          (BeforeSave(r) /\ todo'[r] = todo[r]) =>
              <<open_positions, init_flag, sess>>' = <<open_positions, init_flag, sess>>]_vars

(* C12  Session-record existence.  Between cycles, after any sequence of     *)
(* cycles and resets, a Session Record exists for a key if and only if the   *)
(* key is in the persisted snapshot.  (Every state of the sequential         *)
(* specification is a state between cycles.)                                 *)
C12_SessionIffSnapshot == DOMAIN sess = DOMAIN open_positions

(* C13  Monotone accumulators.  As long as the Session Record of a key       *)
(* exists, no operation makes its total_entry_value or its total_exit_value  *)
(* smaller.                                                                  *)
C13_MonotoneAccumulators ==
    [][\A k \in DOMAIN sess \cap DOMAIN sess' :
          /\ sess'[k].total_entry_value >= sess[k].total_entry_value
          /\ sess'[k].total_exit_value >= sess[k].total_exit_value]_vars

\* the store calls the cycle of request r has made so far
StoreDone(r) == SelectSeq(Done(r), LAMBDA a : a.op \in StoreCalls)

(* C14  Snapshot overwrite.  When a cycle has completed (process_positions   *)
(* has returned), the persisted snapshot is exactly the mapping the cycle    *)
(* normalized, and the snapshot write was the last store write of the cycle. *)
C14_SnapshotOverwrite ==
    \A r \in Requests :
        (pc[r] = "report" /\ res.op = "process_positions") =>
            /\ open_positions = inp.cur
            /\ StoreDone(r) # <<>>
            /\ StoreDone(r)[Len(StoreDone(r))].op = "save_open_state"

(* C15  Store write failure is surfaced.  When a store write of the          *)
(* snapshot, of a Session Record or of the init flag has failed during a     *)
(* cycle, process_positions does not return ok = True.                       *)
C15_WriteFailureSurfaced ==
    \A r \in Requests :
        ( /\ pc[r] = "report"
          /\ res.op = "process_positions"
          /\ \E i \in DOMAIN Done(r) :
                /\ ~Done(r)[i].ok
                /\ Done(r)[i].op \in {"save_open_state", "sess_set", "sess_del", "mark_init_done"} )
        => res.ok = FALSE

(* C16  Settlement failure isolation.  In every cycle that is not the        *)
(* initial sync, each closing key gets exactly one more Trade, whatever the  *)
(* settlement fetch returned for it or for the other closing keys; the Trade *)
(* of a key whose fetch returned nothing (failure, timeout, no data) carries *)
(* the fallback estimate of its own fee_calc arguments; and the new snapshot *)
(* is persisted.                                                             *)
C16_SettlementFailureIsolated ==
    [][(CycleStep /\ init_flag) =>
          /\ \A k \in DOMAIN open_positions \ DOMAIN inp'.cur :
                /\ TradeCount(hist', k) = TradeCount(hist, k) + 1
                /\ inp'.inc[k] = <<>> =>
                      \E i \in DOMAIN res'.closed_trades :
                          LET row == res'.closed_trades[i]
                              fb == FallbackOf(res'.fee_calls[i])
                          IN  /\ pkey(row.symbol, row.side) = k
                              /\ row.closed_pnl = Round8(fb.closed_pnl)
                              /\ row.fee_funding = Round8(fb.fee_funding)
                              /\ row.realized = Round8(fb.realized)
                              /\ row.fee_funding < 0
          /\ open_positions' = inp'.cur
      ]_vars

\* a cycle has closed two keys, the settlement fetch having returned nothing
\* for one and records for the other; both have their Trade and the snapshot
\* is the current one
C16_Witness ==
    /\ res.op = "process_positions"
    /\ res.events.close = 2
    /\ \E k1, k2 \in DOMAIN inp.inc :
          /\ inp.inc[k1] = <<>>
          /\ inp.inc[k2] # <<>>
          /\ TradeCount(hist, k1) = 1
          /\ TradeCount(hist, k2) = 1
    /\ open_positions = inp.cur

(* C17  Delete follows the Trade.  Whenever a cycle has deleted the Session  *)
(* Record of a closing key, it has appended that key's Trade to the history  *)
(* before: in no state is the record gone while the Trade is not appended.   *)
C17_DeleteFollowsTrade ==
    \A r \in Requests :
        \A i \in DOMAIN Done(r) :
            (Done(r)[i].op = "sess_del" /\ Done(r)[i].ok) =>
                /\ Done(r)[i].k \notin DOMAIN sess
                /\ \E j \in 1..(i - 1) :
                      /\ Done(r)[j].op = "hist_push"
                      /\ Done(r)[j].k = Done(r)[i].k
                      /\ Done(r)[j].ok
                /\ TradeCount(hist, Done(r)[i].k) >= 1

(* C18  Ledger before snapshot.  In every cycle, every write and every       *)
(* delete of a Session Record comes before the cycle's snapshot write: once  *)
(* the cycle has made its snapshot write, it makes no Session Record call.   *)
C18_LedgerBeforeSnapshot ==
    \A r \in Requests :
        \A i, j \in DOMAIN Done(r) :
            (i < j /\ Done(r)[i].op = "save_open_state") =>
                Done(r)[j].op \notin {"sess_set", "sess_del"}

\* a cycle has returned that updated the Session Record of a key that stayed,
\* deleted the one of a key that closed, and then persisted its snapshot
C18_Witness ==
    \E r \in Requests :
        /\ pc[r] = "report"
        /\ \E i, j, n \in DOMAIN Done(r) :
              /\ i < j /\ j < n
              /\ Done(r)[i].op = "sess_set" /\ Done(r)[i].ok
              /\ Done(r)[j].op = "sess_del" /\ Done(r)[j].ok
              /\ Done(r)[n].op = "save_open_state" /\ Done(r)[n].ok
              /\ n = Len(Done(r))
        /\ open_positions = inp.cur

\* the keys whose Session Record the abandoned cycle has already written from
\* the current snapshot, while the persisted snapshot does not hold the
\* current Position of the key
AheadKeys ==
    {k \in DOMAIN res.cur \cap DOMAIN sess :
        /\ \E i \in DOMAIN res.done :
              res.done[i].op = "sess_set" /\ res.done[i].k = k /\ res.done[i].ok
        /\ sess[k].last_qty = res.cur[k].qty
        /\ (k \notin DOMAIN open_positions \/ open_positions[k] # res.cur[k])}

(* C20  Crash leaves at most one key ahead.  When the process has died in a  *)
(* cycle before the cycle's snapshot write, at most one key has a Session    *)
(* Record that reflects the current snapshot while the persisted snapshot    *)
(* holds the old data.                                                       *)
C20_CrashOneKeyAhead ==
    ( /\ res.op = "crash"
      /\ \A i \in DOMAIN res.done : res.done[i].op # "save_open_state" )
    => Cardinality(AheadKeys) <= 1

\* the number of Trades the step appends to the partition of day d
Appended(d) ==
    IF CycleStep
    THEN Len(SelectSeq(res'.closed_trades, LAMBDA row : Day(row.close_ts) = d))
    ELSE 0

(* C19  Append-only history (the claim as stated).  No step modifies or      *)
(* removes a Trade that is in the history: every partition keeps all its     *)
(* Trades, unchanged and in their order, behind the Trades the step appends. *)
C19_AppendOnly ==
    [][\A d \in DOMAIN hist :
          /\ Len(hist'[d]) >= Len(hist[d])
          /\ SubSeq(hist'[d], Len(hist'[d]) - Len(hist[d]) + 1, Len(hist'[d])) = hist[d]
      ]_vars

(* C19  as amended.  No step modifies a Trade that is in the history, and    *)
(* none removes one but the append itself, which keeps the newest HistKeep   *)
(* Trades of the partition: behind the Trades a step appends, the partition  *)
(* holds the Trades it held, unchanged and in their order, less the oldest   *)
(* ones beyond HistKeep; a step that appends nothing changes nothing.        *)
C19_AppendOnlyUpToKeep ==
    [][\A d \in DOMAIN hist :
          LET added == Appended(d)
              kept == Min(Len(hist[d]), HistKeep - added)
          IN  /\ Len(hist'[d]) = added + kept
              /\ SubSeq(hist'[d], added + 1, added + kept) = SubSeq(hist[d], 1, kept)
              /\ Len(hist[d]) + added <= HistKeep => kept = Len(hist[d])
      ]_vars

\* two Trades were appended to a partition that held one less than HistKeep:
\* it holds HistKeep Trades, the two new ones in front, and its oldest Trade
\* is gone
C19_Witness ==
    /\ Len(hist[0]) = HistKeep
    /\ hist[0][1].start_ts >= 0
    /\ hist[0][2].start_ts >= 0
    /\ hist[0][3] = OldTrade(1)
    /\ hist[0][HistKeep] = OldTrade(HistKeep - 2)

(* C21  Init flag permanence.  Once set, the flag stays set through every    *)
(* operation but state_reset; and the cycle that follows a state_reset takes *)
(* the cold-start path: it reports the initial sync with zero events, sends  *)
(* no alert, appends no Trade, and sets the flag again.                      *)
C21_FlagPermanence ==
    [][ /\ (init_flag /\ ~init_flag') => res'.op = "state_reset"
        /\ res'.op = "state_reset" => ~init_flag'
        /\ (res.op = "state_reset" /\ CycleStep) =>
              /\ res'.initial_sync
              /\ res'.events = ZeroEvents
              /\ res'.alerts = <<>>
              /\ res'.closed_trades = <<>>
              /\ init_flag'
      ]_vars

\* a cold start, a reset and the cold start that followed it: the flag is set
\* again, the last cycle was an initial sync on an open position, and a
\* Session Record of before the reset is still there
C21_Witness ==
    /\ res.op = "process_positions"
    /\ res.initial_sync
    /\ init_flag
    /\ clock = 3
    /\ DOMAIN open_positions # {}
    /\ \E k \in DOMAIN sess : sess[k].start_ts = 0
    /\ \E k \in DOMAIN sess : sess[k].start_ts = 2

----------------------------------------------------------------------------
(* Vocabulary of the properties about one key of a cycle *)

\* the number of alerts of the kind sent for key k
AlertCount(alerts, kind, k) == Len(SelectSeq(alerts, LAMBDA a : a.kind = kind /\ a.k = k))

\* this step is a cycle that is not the initial sync
DiffStep == CycleStep /\ init_flag

\* the keys of both the persisted snapshot and the snapshot of this step
CommonKeys == DOMAIN open_positions \cap DOMAIN inp'.cur

(* C22  Epsilon no-change.  For a key of both snapshots whose quantities     *)
(* differ by at most the tolerance, the cycle sends neither an add nor a     *)
(* reduce alert, leaves total_entry_value, total_exit_value, start_ts and    *)
(* entry_price_init of its Session Record as they were, and sets the last_*  *)
(* fields, margin_mode and leverage from the current Position.               *)
C22_EpsilonNoChange ==
    [][DiffStep =>
          \A k \in CommonKeys :
              LET o == open_positions[k]
                  p == inp'.cur[k]
              IN  Abs(p.qty - o.qty) <= Eps =>
                      /\ AlertCount(res'.alerts, "add", k) = 0
                      /\ AlertCount(res'.alerts, "reduce", k) = 0
                      /\ sess'[k].total_entry_value = sess[k].total_entry_value
                      /\ sess'[k].total_exit_value = sess[k].total_exit_value
                      /\ sess'[k].start_ts = sess[k].start_ts
                      /\ sess'[k].entry_price_init = sess[k].entry_price_init
                      /\ sess'[k].last_qty = p.qty
                      /\ sess'[k].last_mark_price = p.mark_price
                      /\ sess'[k].last_entry_price = p.entry_price
                      /\ sess'[k].last_r_pnl = p.r_pnl
                      /\ sess'[k].margin_mode = p.margin_mode
                      /\ sess'[k].leverage = p.leverage
      ]_vars

\* BTCUSDT Long was opened at quantity 1 and is now seen one tolerance above
\* it, at another mark price, leverage and margin mode: no event, the
\* accumulators of the open, the caches of the current Position
C22_Witness ==
    LET k == pkey("BTCUSDT", "Long")
    IN  /\ res.op = "process_positions"
        /\ ~res.initial_sync
        /\ res.events = ZeroEvents
        /\ k \in DOMAIN open_positions
        /\ open_positions[k].qty = QtyOne + Eps
        /\ sess[k].last_qty = QtyOne + Eps
        /\ sess[k].total_entry_value = 100 * Usd
        /\ sess[k].total_exit_value = 0
        /\ sess[k].start_ts < clock - 1
        /\ sess[k].leverage = 20
        /\ sess[k].margin_mode = "Isolated"
        /\ sess[k].last_mark_price = 110 * Usd

(* C23  Add accumulation.  For a key of both snapshots whose quantity rose   *)
(* by more than the tolerance, the cycle sends exactly one add alert for the *)
(* key and raises total_entry_value by the larger of the notional delta and  *)
(* the quantity delta times the current entry price; total_exit_value stays. *)
C23_AddAccumulation ==
    [][DiffStep =>
          \A k \in CommonKeys :
              LET o == open_positions[k]
                  p == inp'.cur[k]
              IN  p.qty - o.qty > Eps =>
                      /\ AlertCount(res'.alerts, "add", k) = 1
                      /\ AlertCount(res'.alerts, "reduce", k) = 0
                      /\ sess'[k].total_entry_value =
                            sess[k].total_entry_value
                            + Max(p.value - o.value, Mul(p.qty - o.qty, p.entry_price))
                      /\ sess'[k].total_exit_value = sess[k].total_exit_value
      ]_vars

\* BTCUSDT Long, opened at quantity 1 and notional 100, was seen at quantity 2
\* with a notional of zero: one add, and total_entry_value is 100 + 1 * 100
C23_Witness ==
    LET k == pkey("BTCUSDT", "Long")
    IN  /\ res.op = "process_positions"
        /\ res.events.add = 1
        /\ k \in DOMAIN open_positions
        /\ open_positions[k].value = 0
        /\ sess[k].last_qty = 2 * QtyOne
        /\ sess[k].total_entry_value = 200 * Usd
        /\ sess[k].total_exit_value = 0

(* C24  Reduce accumulation.  For a key of both snapshots whose quantity     *)
(* fell by more than the tolerance, the cycle sends exactly one reduce alert *)
(* for the key and raises total_exit_value by the larger of the notional     *)
(* removed and the quantity removed times the current mark price;            *)
(* total_entry_value stays.                                                  *)
C24_ReduceAccumulation ==
    [][DiffStep =>
          \A k \in CommonKeys :
              LET o == open_positions[k]
                  p == inp'.cur[k]
              IN  o.qty - p.qty > Eps =>
                      /\ AlertCount(res'.alerts, "reduce", k) = 1
                      /\ AlertCount(res'.alerts, "add", k) = 0
                      /\ sess'[k].total_exit_value =
                            sess[k].total_exit_value
                            + Max(o.value - p.value, Mul(o.qty - p.qty, p.mark_price))
                      /\ sess'[k].total_entry_value = sess[k].total_entry_value
      ]_vars

\* BTCUSDT Long, opened at quantity 3 and notional 400, was seen at quantity 2
\* with mark price 90 and a notional of zero: one reduce, total_exit_value is
\* the notional removed, 400, and total_entry_value is still 400
C24_Witness ==
    LET k == pkey("BTCUSDT", "Long")
    IN  /\ res.op = "process_positions"
        /\ res.events.reduce = 1
        /\ k \in DOMAIN open_positions
        /\ sess[k].last_qty = 2 * QtyOne
        /\ sess[k].last_mark_price = 90 * Usd
        /\ sess[k].total_exit_value = 400 * Usd
        /\ sess[k].total_entry_value = 400 * Usd

\* the price a close of the Position o is valued at
ImpliedClosePrice(o) == IF o.mark_price = 0 THEN o.entry_price ELSE o.mark_price

(* C25  Close accumulation.  For a key of the persisted snapshot that is     *)
(* absent from the current one, the Trade carries total_exit_value = the     *)
(* Session Record's total_exit_value plus the last-known quantity times the  *)
(* implied close price (the last-known mark price, or the last-known entry   *)
(* price when the mark price is zero), and the Session Record's              *)
(* total_entry_value as it was.                                              *)
C25_CloseAccumulation ==
    [][DiffStep =>
          \A k \in DOMAIN open_positions \ DOMAIN inp'.cur :
              \E i \in DOMAIN res'.closed_trades :
                  LET row == res'.closed_trades[i]
                      o == open_positions[k]
                  IN  /\ pkey(row.symbol, row.side) = k
                      /\ row.close_price = ImpliedClosePrice(o)
                      /\ row.total_exit_value =
                            sess[k].total_exit_value + Mul(o.qty, ImpliedClosePrice(o))
                      /\ row.total_entry_value = sess[k].total_entry_value
                      /\ hist'[Day(row.close_ts)][1 + Len(res'.closed_trades) - i] = row
      ]_vars

\* a BTCUSDT Long that was reduced from quantity 3 and then seen at quantity
\* 1 with a mark price of zero has closed: its Trade is valued at the entry
\* price 95, and total_exit_value is what the reduce left plus 1 * 95
C25_Witness ==
    /\ res.op = "process_positions"
    /\ res.events.close = 1
    /\ \E i \in DOMAIN res.closed_trades :
          /\ res.closed_trades[i].side = "Long"
          /\ res.closed_trades[i].close_price = 95 * Usd
          /\ res.closed_trades[i].total_entry_value = 400 * Usd
          /\ res.closed_trades[i].total_exit_value = (305 + 95) * Usd

\* the kinds of alert a cycle sends
AlertKinds == {"open", "add", "reduce", "close"}

\* the snapshot cur without key k
Without(cur, k) == [x \in DOMAIN cur \ {k} |-> cur[x]]

(* C26  Open and hedge-mode independence.  For every key of the current      *)
(* snapshot that is absent from the persisted one, a cycle that is not the   *)
(* initial sync sends exactly one open alert and no other alert for the key  *)
(* and writes a fresh Session Record for it (total_entry_value = current     *)
(* notional, total_exit_value = 0, started now at the current quantity and   *)
(* entry price); the alerts and the Session Record of every other key, the   *)
(* opposite side of the same symbol included, are those of the same cycle    *)
(* run on the current snapshot without the new key.                          *)
C26_OpenIndependence ==
    [][DiffStep =>
          \A k \in DOMAIN inp'.cur \ DOMAIN open_positions :
              LET p == inp'.cur[k]
                  rest == Without(inp'.cur, k)
                  ops == CycleOps(Store, rest, inp'.inc, clock, TRUE)
                  st == ApplyOps(Store, ops)
                  alone == CycleResult(Store, rest, ops)
              IN  /\ \A kind \in AlertKinds :
                        AlertCount(res'.alerts, kind, k) = IF kind = "open" THEN 1 ELSE 0
                  /\ k \in DOMAIN sess'
                  /\ sess'[k].total_entry_value = p.value
                  /\ sess'[k].total_exit_value = 0
                  /\ sess'[k].start_ts = clock
                  /\ sess'[k].last_qty = p.qty
                  /\ sess'[k].entry_price_init = p.entry_price
                  /\ \A j \in Keys \ {k} :
                        /\ j \in DOMAIN sess' <=> j \in DOMAIN st.sess
                        /\ j \in DOMAIN sess' => sess'[j] = st.sess[j]
                        /\ \A kind \in AlertKinds :
                              AlertCount(res'.alerts, kind, j) = AlertCount(alone.alerts, kind, j)
      ]_vars

\* BTCUSDT Short has just opened in the cycle that added to BTCUSDT Long:
\* one open and one add, a fresh Session Record for the Short, and the Long's
\* record still the one of its own open, with the add accumulated
C26_Witness ==
    LET long == pkey("BTCUSDT", "Long")
        short == pkey("BTCUSDT", "Short")
    IN  /\ res.op = "process_positions"
        /\ ~res.initial_sync
        /\ res.events = [open |-> 1, add |-> 1, reduce |-> 0, close |-> 0]
        /\ AlertCount(res.alerts, "open", short) = 1
        /\ AlertCount(res.alerts, "add", long) = 1
        /\ sess[short].start_ts = clock - 1
        /\ sess[short].total_entry_value = open_positions[short].value
        /\ sess[short].total_exit_value = 0
        /\ sess[long].start_ts < clock - 1
        /\ sess[long].total_entry_value > open_positions[long].value

(* C27  Event counts match the diff.  In every cycle that is not the initial *)
(* sync, the returned counts are: open = the number of keys of the current   *)
(* snapshot that are not in the persisted one, close = the number of keys of *)
(* the persisted snapshot that are not in the current one, add = the number  *)
(* of common keys whose quantity rose by more than the tolerance, reduce =   *)
(* the number of common keys whose quantity fell by more than the tolerance, *)
(* and closed_trades has as many Trades as the close count.                  *)
C27_EventCounts ==
    [][DiffStep =>
          LET prev == open_positions
              cur == inp'.cur
          IN  /\ res'.events.open = Cardinality(DOMAIN cur \ DOMAIN prev)
              /\ res'.events.close = Cardinality(DOMAIN prev \ DOMAIN cur)
              /\ res'.events.add =
                    Cardinality({k \in CommonKeys : cur[k].qty - prev[k].qty > Eps})
              /\ res'.events.reduce =
                    Cardinality({k \in CommonKeys : prev[k].qty - cur[k].qty > Eps})
              /\ Len(res'.closed_trades) = res'.events.close
      ]_vars

\* a cycle that saw one key go and the other come: one open, one close, one
\* Trade; and before it a cycle that counted an add
C27_Witness ==
    /\ res.op = "process_positions"
    /\ ~res.initial_sync
    /\ res.events = [open |-> 1, add |-> 0, reduce |-> 0, close |-> 1]
    /\ Len(res.closed_trades) = 1
    /\ res.closed_trades[1].total_entry_value > 100 * Usd
    /\ DOMAIN open_positions = {pkey("BTCUSDT", "Short")}

\* the type token, lower-cased, contains one of the fee and funding keywords
HasFeeKeyword(typ) ==
    \/ Contains(LowerStr(Chars(typ)), Chars("commission"))
    \/ Contains(LowerStr(Chars(typ)), Chars("fee"))
    \/ Contains(LowerStr(Chars(typ)), Chars("funding"))
    \/ Contains(LowerStr(Chars(typ)), Chars("fund"))

\* the records of the input that survive the symbol filter
Surviving == {i \in DOMAIN fee_in.recs : ~ForeignSymbol(fee_in.symbol, fee_in.recs[i])}

(* C28  Exact reconciliation partitions the records.  When at least one      *)
(* settlement record survives the symbol filter, fee_funding is the sum of   *)
(* the surviving amounts whose type holds a fee keyword, closed_pnl the sum  *)
(* of the other surviving amounts, realized = closed_pnl + fee_funding = the *)
(* sum of all surviving amounts, and the result is the same for every        *)
(* estimate, total_entry_value and total_exit_value the caller passes.       *)
C28_ReconciliationPartition ==
    (fee_out # <<>> /\ Surviving # {}) =>
        LET amount(i) == fee_in.recs[i].amount
            fees == {i \in Surviving : HasFeeKeyword(fee_in.recs[i].type)}
            SumOver(S) == SumSeq([i \in DOMAIN fee_in.recs |-> IF i \in S THEN amount(i) ELSE 0])
        IN  /\ fee_out[1].fee_funding = SumOver(fees)
            /\ fee_out[1].closed_pnl = SumOver(Surviving \ fees)
            /\ fee_out[1].realized = fee_out[1].closed_pnl + fee_out[1].fee_funding
            /\ fee_out[1].realized = SumOver(Surviving)
            /\ \A a \in FeeAmounts :
                  fee_calc(fee_in.symbol, fee_in.recs, a[1], a[2], a[3]) = fee_out[1]

\* a reconciliation has returned on a funding record and a profit record of
\* the requested symbol: each amount in its own sum, and none of the caller's
\* estimate in the result
C28_Witness ==
    /\ fee_out # <<>>
    /\ Len(fee_in.recs) = 2
    /\ Surviving = {1, 2}
    /\ fee_in.recs[1].type = "FUNDING_FEE"
    /\ fee_in.recs[1].amount = -3
    /\ fee_in.recs[2].type = "REALIZED_PNL"
    /\ fee_in.recs[2].amount = 4
    /\ fee_out[1] = [closed_pnl |-> 4, fee_funding |-> -3, realized |-> 1]
    /\ fee_in.closed = -100 * Usd

----------------------------------------------------------------------------
(* Vocabulary of the properties about the cycle after a crash *)

\* the cycle that died made the store call op for key k, and the store took it
CrashedAfter(op, k) ==
    /\ res.op = "crash"
    /\ \E i \in DOMAIN res.done : res.done[i] = [op |-> op, k |-> k, ok |-> TRUE]
    /\ \A i \in DOMAIN res.done : res.done[i].op # "save_open_state"

\* this step is a store call of the first cycle after the crash, made for key
\* k, with the exchange reporting what it reported to the cycle that died
RerunWrite(op, k) ==
    /\ res.op = "crash"
    /\ pc[Poller] = "writing"
    /\ inp.cur = res.cur
    /\ todo[Poller].ops # <<>>
    /\ todo'[Poller].ops = Tail(todo[Poller].ops)
    /\ Head(todo[Poller].ops).op = op
    /\ Head(todo[Poller].ops).k = k

(* C29  Crash re-accumulation is reachable.  When a cycle has persisted a    *)
(* key's Session Record after an add or a reduce and the process has died    *)
(* before the snapshot write, the next cycle, which starts from the stale    *)
(* snapshot with the exchange state unchanged, finds the same quantity delta *)
(* and adds it again to the accumulator the crashed cycle had already        *)
(* raised: total_entry_value for an add, total_exit_value for a reduce.      *)
C29_CrashReaccumulation ==
    [][\A k \in DOMAIN open_positions \cap DOMAIN inp.cur :
          LET o == open_positions[k]
              p == inp.cur[k]
          IN  ( /\ CrashedAfter("sess_set", k)
                /\ RerunWrite("sess_set", k)
                /\ Abs(p.qty - o.qty) > Eps )
              => /\ sess[k].last_qty = p.qty
                 /\ p.qty > o.qty =>
                       /\ sess'[k].total_entry_value =
                             sess[k].total_entry_value
                             + Max(p.value - o.value, Mul(p.qty - o.qty, p.entry_price))
                       /\ sess'[k].total_entry_value > sess[k].total_entry_value
                 /\ p.qty < o.qty =>
                       /\ sess'[k].total_exit_value =
                             sess[k].total_exit_value
                             + Max(o.value - p.value, Mul(o.qty - p.qty, p.mark_price))
                       /\ sess'[k].total_exit_value > sess[k].total_exit_value
      ]_vars

\* BTCUSDT Long was opened at quantity 1 and notional 100; the cycle that saw
\* it at quantity 1.5 and notional 150 died after its sess_set, and the cycle
\* after it has written the Session Record again: total_entry_value is
\* 100 + 50 + 50 for one add of 50
C29_Witness ==
    LET k == pkey("BTCUSDT", "Long")
    IN  /\ CrashedAfter("sess_set", k)
        /\ pc[Poller] = "writing"
        /\ inp.cur = res.cur
        /\ \E i \in DOMAIN todo[Poller].done :
              todo[Poller].done[i] = [op |-> "sess_set", k |-> k, ok |-> TRUE]
        /\ k \in DOMAIN open_positions
        /\ open_positions[k].value = 100 * Usd
        /\ res.cur[k].value = 150 * Usd
        /\ sess[k].total_entry_value = 200 * Usd

(* C30  No duplicate Trade after a crash.  When a cycle has died after       *)
(* appending the Trade of a closed key (or after deleting the key's Session  *)
(* Record) and before the snapshot write, no store call of the cycle that    *)
(* then starts from the persisted snapshot appends another Trade for the     *)
(* key.                                                                      *)
C30_NoDuplicateTrade ==
    [][\A k \in Keys :
          ( /\ CrashedAfter("hist_push", k) \/ CrashedAfter("sess_del", k)
            /\ res.op = "crash"
            /\ pc[Poller] = "writing" )
          => TradeCount(hist', k) = TradeCount(hist, k)
      ]_vars

(* C31  Absent Session Record is reconstructed.  When a key is in both       *)
(* snapshots, or only in the persisted one, and its Session Record cannot be *)
(* read, the cycle returns normally; it starts from a record made of the     *)
(* available Position (total_entry_value = that Position's notional,         *)
(* total_exit_value = 0, started now), applies the add, reduce or close step *)
(* to it, and persists the record or appends the Trade as usual.             *)
C31_AbsentSessionRebuilt ==
    [][DiffStep =>
          \A k \in inp'.unread \cap DOMAIN open_positions :
              LET o == open_positions[k]
              IN  /\ res'.ok
                  /\ k \in DOMAIN inp'.cur =>
                        LET p == inp'.cur[k]
                            dv == Max(p.value - o.value, Mul(p.qty - o.qty, p.entry_price))
                            rv == Max(o.value - p.value, Mul(o.qty - p.qty, p.mark_price))
                        IN  /\ k \in DOMAIN sess'
                            /\ sess'[k].start_ts = clock
                            /\ sess'[k].entry_price_init = p.entry_price
                            /\ sess'[k].last_qty = p.qty
                            /\ sess'[k].total_entry_value =
                                  p.value + (IF p.qty - o.qty > Eps THEN dv ELSE 0)
                            /\ sess'[k].total_exit_value =
                                  IF o.qty - p.qty > Eps THEN rv ELSE 0
                            /\ AlertCount(res'.alerts, "add", k) =
                                  IF p.qty - o.qty > Eps THEN 1 ELSE 0
                            /\ AlertCount(res'.alerts, "reduce", k) =
                                  IF o.qty - p.qty > Eps THEN 1 ELSE 0
                  /\ k \notin DOMAIN inp'.cur =>
                        /\ k \notin DOMAIN sess'
                        /\ RowCount(res'.closed_trades, k) = 1
                        /\ TradeCount(hist', k) = TradeCount(hist, k) + 1
                        /\ \A i \in DOMAIN res'.closed_trades :
                              LET row == res'.closed_trades[i]
                              IN  pkey(row.symbol, row.side) = k =>
                                      /\ row.start_ts = clock
                                      /\ row.entry_price = o.entry_price
                                      /\ row.total_entry_value = o.value
                                      /\ row.total_exit_value =
                                            Mul(o.qty, ImpliedClosePrice(o))
      ]_vars

\* the Session Record of BTCUSDT Long, opened at quantity 1 and notional 100,
\* could not be read in the cycle that saw the position at quantity 3 and
\* notional 400: the record now starts at that cycle, with total_entry_value
\* = 400 + 300 instead of 100 + 300
C31_Witness ==
    LET k == pkey("BTCUSDT", "Long")
    IN  /\ res.op = "process_positions"
        /\ ~res.initial_sync
        /\ res.events.add = 1
        /\ k \in inp.unread
        /\ sess[k].start_ts = clock - 1
        /\ sess[k].start_ts > 0
        /\ sess[k].entry_price_init = 100 * Usd
        /\ sess[k].last_qty = 3 * QtyOne
        /\ sess[k].total_entry_value = 700 * Usd
        /\ sess[k].total_exit_value = 0

(* C32  Position fetch failure is not a close.  A cycle in which the         *)
(* position fetch fails on every endpoint sends no close alert and counts no *)
(* close, appends no Trade, deletes no Session Record and leaves the         *)
(* persisted snapshot as it was.                                             *)
C32_FetchFailureNotClose ==
    [][(CycleStep /\ inp'.up = {}) =>
          /\ res'.events.close = 0
          /\ res'.closed_trades = <<>>
          /\ \A k \in Keys : AlertCount(res'.alerts, "close", k) = 0
          /\ hist' = hist
          /\ DOMAIN sess \subseteq DOMAIN sess'
          /\ open_positions' = open_positions
      ]_vars

----------------------------------------------------------------------------
(* Vocabulary of the properties of norm_pos *)

\* fetch_positions has returned
Normalized == res.op = "fetch_positions"

\* the number the raw field stands for, 0 when it holds none
NumberOf(x) == IF x.kind \in {"num", "str"} THEN x.v ELSE 0

\* the symbol the raw record names: symbol, or ticker when symbol is empty
NamedSymbol(it) == IF it.symbol # "" THEN it.symbol ELSE it.ticker

\* the quantity the raw record resolves to: |positionAmt|, or |availableAmt|
\* when that is zero
ResolvedQty(it) ==
    IF NumberOf(it.positionAmt) # 0 THEN Abs(NumberOf(it.positionAmt))
    ELSE Abs(NumberOf(it.availableAmt))

SideToken(it) == LowerStr(Chars(it.positionSide))

\* the side the token names, "" when it names none
TokenSide(tok) ==
    IF Contains(tok, Chars("short")) \/ tok = Chars("sell") \/ tok = Chars("2") THEN "Short"
    ELSE IF Contains(tok, Chars("long")) \/ tok = Chars("buy") \/ tok = Chars("1") THEN "Long"
    ELSE ""

(* C34  Side resolution.  For every record norm_pos accepts, the side is the *)
(* one the side token names when it is recognizable (contains long or short, *)
(* or is buy, sell, 1 or 2), whatever the sign of the signed quantity; when  *)
(* the token is absent or not recognizable, the side is Short for a negative *)
(* signed quantity and Long otherwise; the side is always Long or Short.     *)
C34_SideResolution ==
    (Normalized /\ res.n.ok) =>
        LET named == TokenSide(SideToken(inp.raw))
        IN  /\ res.n.side \in {"Long", "Short"}
            /\ named # "" => res.n.side = named
            /\ named = "" =>
                  res.n.side = IF NumberOf(inp.raw.positionAmt) < 0 THEN "Short" ELSE "Long"

\* a record with the side token LONG and a negative positionAmt came out Long
C34_Witness ==
    /\ Normalized
    /\ res.n.ok
    /\ inp.raw.positionSide = "LONG"
    /\ NumberOf(inp.raw.positionAmt) < 0
    /\ res.n.side = "Long"
    /\ res.n.qty = 2 * QtyOne

(* C35  Leverage and margin edge cases.  For every raw record with a         *)
(* positive quantity norm_pos returns a Position; when the reported leverage *)
(* is absent or <= 0 the Position's leverage is notional / margin used if    *)
(* the margin used is > 0 and 1 otherwise; when no margin is reported and    *)
(* the leverage is > 0 the margin used is notional / leverage; the leverage  *)
(* of the Position is never negative.                                        *)
C35_LeverageEdgeCases ==
    (Normalized /\ res.n.ok) =>
        LET reported == NumberOf(inp.raw.leverage)
        IN  /\ reported <= 0 =>
                  res.n.leverage =
                      IF res.n.margin > 0 THEN Quot(res.n.value, res.n.margin) ELSE 1
            /\ (reported > 0 /\ inp.raw.positionMargin = Absent) =>
                  res.n.margin = Quot(res.n.value, reported)
            /\ reported > 0 => res.n.leverage = reported
            /\ res.n.leverage >= 0

(* C36  PanTerra throttle.  Of the PanTerra signals let through for one      *)
(* (symbol, side), no two arrived less than ThrottleSec apart, also when two *)
(* webhook requests are handled at once; and a signal is suppressed only     *)
(* when a signal of its own (symbol, side) was let through less than         *)
(* ThrottleSec before it.                                                    *)
C36_PanterraThrottle ==
    /\ \A i, j \in DOMAIN tg :
          ( /\ i < j
            /\ tg[i].kind = "panterra"
            /\ tg[j].kind = "panterra"
            /\ tg[i].signal = tg[j].signal )
          => Abs(tg[j].now - tg[i].now) >= ThrottleSec
    /\ (res.op = "build_signal_msg" /\ ~res.msg) =>
          \E k \in {throttle_key(res.signal[1], res.signal[2])} :
              /\ k \in DOMAIN MEM_THROTTLE
              /\ res.now - MEM_THROTTLE[k] < ThrottleSec

\* the auto reports sent so far
Reports == {i \in DOMAIN tg : tg[i].kind = "report"}

(* C37  Auto report at most once per slot.  With auto report on, whatever    *)
(* the triggers and their interleaving, the daily summary is sent at most    *)
(* once for a date-and-minute slot, only for a slot at the configured minute *)
(* of the day, and a slot is recorded as last sent only after its report has *)
(* been sent.                                                                *)
C37_AutoReportOncePerSlot ==
    /\ \A i, j \in Reports : tg[i].slot = tg[j].slot => i = j
    /\ \A i \in Reports :
          tg[i].slot % DayLen = cfg_get(kv, "report_auto_minute", ReportMinuteDefault)
    /\ cfg_key("report_auto_last_slot") \in DOMAIN kv =>
          \E i \in Reports : tg[i].slot = kv[cfg_key("report_auto_last_slot")]

\* the report of the first day has gone out once although both requests came
\* in its minute, and the report of the second day has gone out as well
C37_Witness ==
    /\ Len(tg) = 2
    /\ Reports = {1, 2}
    /\ tg[1].slot = 0
    /\ tg[2].slot = DayLen
    /\ kv[cfg_key("report_auto_last_slot")] = DayLen
    /\ res.op = "maybe_auto_report"
    /\ res.sent

\* the commands served to every user
OpenCommands ==
    {"/help", "/status", "/report_summary", "/report_detail", "/report_auto_status"}

(* C38  Admin gating.  With ADMIN_USER_IDS non-empty, a command from a user  *)
(* outside it changes none of the group switches, the auto-report            *)
(* configuration, the switch log, the previous snapshot and the init flag,   *)
(* and sends no announcement: the only messages go to the chat the command   *)
(* came from, and every command but /help, /status and the report queries is *)
(* refused.                                                                  *)
C38_AdminGating ==
    [][(ADMIN_USER_IDS # {} /\ res'.op = "handle_command" /\ tg' # tg
          /\ inp'.uid \notin ADMIN_USER_IDS) =>
            /\ kv' = kv
            /\ switch_log' = switch_log
            /\ open_positions' = open_positions
            /\ init_flag' = init_flag
            /\ \A i \in DOMAIN tg' \ DOMAIN tg :
                  /\ tg'[i].kind # "announcement"
                  /\ tg'[i].chat_id = inp'.chat_id
            /\ inp'.cmd \notin OpenCommands <=> res'.reply = "refused"]_vars

\* after an admin switched the position alerts of the group on, another user
\* asked for /state_reset and was refused; the snapshot is still there
C38_Witness ==
    /\ res.op = "handle_command"
    /\ inp.uid \notin ADMIN_USER_IDS
    /\ inp.cmd = "/state_reset"
    /\ res.reply = "refused"
    /\ open_positions # NoSnapshot
    /\ init_flag
    /\ Len(switch_log) = 1
    /\ kv[sw_key("position", GroupChat)] = "1"

\* the send_pos_alert calls of this step
NewCalls == [i \in 1 .. (Len(tg') - Len(tg)) |-> tg'[Len(tg) + i]]

\* the event of key k in this step, "" when there is none
DiffEventOf(k) ==
    LET prev == open_positions
        cur == inp'.cur
    IN  CASE k \in DOMAIN cur \ DOMAIN prev -> "open"
          [] k \in DOMAIN prev \ DOMAIN cur -> "close"
          [] k \in CommonKeys /\ cur[k].qty - prev[k].qty > Eps -> "add"
          [] k \in CommonKeys /\ prev[k].qty - cur[k].qty > Eps -> "reduce"
          [] OTHER -> ""

(* C39  Alert fan-out and switch gating.  In a cycle that is not the initial *)
(* sync and runs with send_alert, every open, add, reduce and close event    *)
(* leads to exactly one send_pos_alert call and nothing else does, and every *)
(* call sends once to each private chat of CHAT_IDS_POSITION and to a group  *)
(* chat exactly when its position switch holds 1 in the store: a group whose *)
(* switch is not set receives nothing.                                       *)
C39_AlertFanOut ==
    [][DiffStep =>
          /\ \A k \in Keys, kind \in AlertKinds :
                Len(SelectSeq(NewCalls, LAMBDA c : c.alert = kind /\ c.k = k))
                   = IF DiffEventOf(k) = kind THEN 1 ELSE 0
          /\ \A i \in DOMAIN NewCalls :
                /\ NewCalls[i].kind = "position"
                /\ Len(NewCalls[i].to) = Cardinality(Range(NewCalls[i].to))
                /\ \A c \in Range(CHAT_IDS_POSITION) :
                      c \in Range(NewCalls[i].to) <=>
                         \/ c >= 0
                         \/ /\ sw_key("position", c) \in DOMAIN kv
                            /\ kv[sw_key("position", c)] = "1"
      ]_vars

\* an open and then an add were each sent to the private chat alone, the
\* group's switch not being set
C39_Witness ==
    /\ sw_key("position", GroupChat) \notin DOMAIN kv
    /\ Len(tg) = 2
    /\ tg[1].alert = "open"
    /\ tg[2].alert = "add"
    /\ tg[1].to = <<PrivateChat>>
    /\ tg[2].to = <<PrivateChat>>
    /\ res.events.add = 1

\* this step is the death of the process and its restart, bootstrap included
RestartStep == res'.op = "crash" /\ pc[Poller] = "writing" /\ pc'[Poller] = "idle"

\* this step begins the first cycle after a restart
FirstCycleStep == res.op = "crash" /\ pc[Poller] = "begin" /\ pc'[Poller] = "writing"

(* C40  Bootstrap repairs the init flag.  A restart that finds a non-empty   *)
(* previous snapshot and no init flag sets the flag, and the first cycle     *)
(* after it is not an initial sync; a restart changes neither the snapshot   *)
(* nor a Session Record, and leaves the flag as it is, unset included, when  *)
(* the snapshot is empty or absent.                                          *)
C40_BootstrapRepairsFlag ==
    [][/\ RestartStep =>
            /\ open_positions' = open_positions
            /\ sess' = sess
            /\ init_flag' = IF open_positions # NoSnapshot THEN TRUE ELSE init_flag
       /\ (FirstCycleStep /\ open_positions # NoSnapshot) =>
            /\ ~todo'[Poller].result.initial_sync
            /\ todo'[Poller].result.events =
                  [ev \in AlertKinds |->
                      Cardinality({k \in Keys :
                          CASE ev = "open" -> k \in DOMAIN inp'.cur \ DOMAIN open_positions
                            [] ev = "close" -> k \in DOMAIN open_positions \ DOMAIN inp'.cur
                            [] ev = "add" -> k \in CommonKeys
                                             /\ inp'.cur[k].qty - open_positions[k].qty > Eps
                            [] ev = "reduce" -> k \in CommonKeys
                                             /\ open_positions[k].qty - inp'.cur[k].qty > Eps})]
      ]_vars

\* the cold start died between save_open_state and mark_init_done; the flag
\* stands after the restart, and the cycle after it has counted an add against
\* the snapshot the cold start saved
C40_Witness ==
    /\ res.op = "crash"
    /\ \E i \in DOMAIN res.done : res.done[i].op = "save_open_state" /\ res.done[i].ok
    /\ \A i \in DOMAIN res.done : res.done[i].op # "mark_init_done"
    /\ init_flag
    /\ pc[Poller] = "writing"
    /\ ~todo[Poller].result.initial_sync
    /\ todo[Poller].result.events.add = 1
    /\ res.cur # NoSnapshot
    /\ open_positions = res.cur

====
